---- MODULE Spec2Model ----
(***************************************************************************)
(* AgentMail REST client (agentmail.cc): the response accumulator          *)
(* (http_event_handler), the request helper (perform_http_request) and the *)
(* public operations built on it.                                          *)
(*                                                                         *)
(* One call of a public operation is a run                                 *)
(*   idle -> [perform -> performed ->] done -> idle                        *)
(* where "perform" is the time esp_http_client_perform is running and      *)
(* delivers HTTP_EVENT_ON_DATA events to http_event_handler.               *)
(*                                                                         *)
(* Bytes of the response are identified by their arrival index (the k-th   *)
(* byte handed to the handler, counted from 0), so the buffer content is a *)
(* sequence of runs [from, len] of arrival indices: the buffer holds the   *)
(* exact concatenation of the chunks iff it is the single run [0, stream). *)
(***************************************************************************)
EXTENDS Integers, Sequences, FiniteSets, TLC

VARIABLES
    pc,             \* "idle", "perform", "performed", "done"
    op,             \* the public operation being called ("none" when idle)
    args,           \* the set of names of the non-NULL pointer arguments
    client,         \* agentmail_client_t behind the handle (NoClient before init)
    buffer,         \* response->buffer content: runs of arrival indices
    size,           \* response->size
    capacity,       \* response->capacity
    respBuf,        \* heap status of response->buffer
    termAt,         \* index of the zero byte written last (calloc zeroes index 0)
    oob,            \* a write landed at an index >= the allocated capacity
    stream,         \* bytes delivered so far by ON_DATA events of this request
    events,         \* events delivered so far in this request
    sawChunked,     \* some ON_DATA event was ignored as chunked
    reallocFailed,  \* some realloc of the buffer returned NULL
    dropped,        \* some chunk was dropped at the ceiling
    err,            \* esp_err_t of esp_http_client_perform
    status_code,    \* *status_code
    result,         \* return value of perform_http_request
    ret,            \* return value of the public operation
    httpRequests,   \* esp_http_client_perform calls made by this operation call
    res_json,       \* cJSON tree of the response (NullTree: not parsed / parse failed)
    inbox,          \* caller's agentmail_inbox_t output record
    outWritten,     \* the operation wrote to one of the caller's output locations
    failedAt,       \* the local step of this call that failed ("none": no step)
    inboxes,        \* caller's agentmail_inbox_list_t output record
    message,        \* caller's agentmail_message_t output record
    messages,       \* caller's agentmail_message_list_t output record
    raw_content,    \* caller's *raw_content ("?": not written)
    raw_size,       \* caller's *raw_size (-1: not written)
    url,            \* the path and URL built for the request of this call
    log,            \* diagnostic lines perform_http_request emitted in this call
    released,       \* the free operations called and the pointers they freed
    reqs,           \* the requests of two tasks sharing one handle
    callerCfg,      \* the caller's agentmail_config_t as it is now
    initCfg,        \* the agentmail_config_t agentmail_init was given
    app             \* the application on top: AgentMailManager and the test modes

vars == <<pc, op, args, client, buffer, size, capacity, respBuf, termAt, oob,
          stream, events, sawChunked, reallocFailed, dropped, err, status_code,
          result, ret, httpRequests, res_json, inbox, outWritten, failedAt,
          inboxes, message, messages, raw_content, raw_size, url, log,
          released, reqs, callerCfg, initCfg, app>>

accVars == <<buffer, size, capacity, termAt, oob, stream, events,
             sawChunked, reallocFailed, dropped>>

\* the output records other than the single inbox
recVars == <<inboxes, message, messages, raw_content, raw_size>>

\* the caller's side of the configuration
cfgVars == <<callerCfg, initCfg>>

\* state no step of a single sequential call touches
sideVars == <<released, reqs, app>>

\* everything but the accumulator, the call and the single inbox record
restVars == <<inboxes, message, messages, raw_content, raw_size, url, log,
              released, reqs, callerCfg, initCfg, app>>

-----------------------------------------------------------------------------
(* Program constants *)

MAX_HTTP_RESPONSE_SIZE == 32768

INITIAL_CAPACITY == 4096

DEFAULT_TIMEOUT_MS == 10000

DEFAULT_BASE_URL == "https://api.agentmail.to/v0"

-----------------------------------------------------------------------------
(* Bounds of the model *)

\* events delivered to the handler in one request, accumulator specification
MaxEvents == 3

\* events delivered to the handler in one request, operation specification
MaxReqEvents == 2

\* chunk lengths (evt->data_len) tried by the accumulator specification
AccLens == {0, 1, 2048, 4095, 4096, 16383, 16384, 32767, 32768, 40000}

\* largest status code tried by the request-helper specification
MaxStatus == 999

\* chunk lengths tried by the operation specification
ReqLens == {100, 5000}

-----------------------------------------------------------------------------
(* Response accumulator: http_event_handler *)

\* the buffer content that is the whole stream of n bytes, in order
Whole(n) == IF n = 0 THEN << >> ELSE << [from |-> 0, len |-> n] >>

\* memcpy(response->buffer + response->size, evt->data, evt->data_len)
AppendRun(buf, from, len) ==
    IF len = 0 THEN buf
    ELSE IF Len(buf) > 0 /\ buf[Len(buf)].from + buf[Len(buf)].len = from
         THEN [buf EXCEPT ![Len(buf)].len = @ + len]
         ELSE buf \o << [from |-> from, len |-> len] >>

\* size_t arithmetic; every length of the model stays far below 2^31, so
\* neither the sum nor the doubling wraps
NewSize(sz, data_len) == sz + data_len

\* a capacity without the doubling: no room left for the terminator
NewCapacity_exactFit(new_size) ==
    IF new_size > MAX_HTTP_RESPONSE_SIZE
    THEN MAX_HTTP_RESPONSE_SIZE
    ELSE new_size

\* a doubling without the ceiling
NewCapacity_uncapped(new_size) == new_size * 2

NewCapacity(new_size) ==
    IF new_size * 2 > MAX_HTTP_RESPONSE_SIZE
    THEN MAX_HTTP_RESPONSE_SIZE
    ELSE new_size * 2

\* a handler that reallocates to the computed capacity on every chunk
GrowDecision_everyChunk(new_size, cap, realloc_ok) ==
    IF ~realloc_ok THEN "nomem" ELSE "grow"

\* a handler without the "Response too large" test: it reallocates whenever
\* the chunk does not fit
GrowDecision_noDrop(new_size, cap, realloc_ok) ==
    IF new_size >= cap
    THEN IF ~realloc_ok THEN "nomem" ELSE "grow"
    ELSE "fit"

\* the path the handler takes for one non-chunked data chunk
GrowDecision(new_size, cap, realloc_ok) ==
    IF new_size >= cap
    THEN IF NewCapacity(new_size) <= cap THEN "drop"
         ELSE IF ~realloc_ok THEN "nomem"
         ELSE "grow"
    ELSE "fit"

\* a handler that accumulates chunked-encoded data like any other
SkipsChunk_never(chunked) == FALSE

\* if (!esp_http_client_is_chunked_response(evt->client)): the handler skips
\* the data of a chunked-encoded response
SkipsChunk(chunked) == chunked

\* HTTP_EVENT_ON_DATA with data_len = len
OnData(len, chunked, realloc_ok, maxEv) ==
    /\ pc = "perform"
    /\ ~oob
    /\ events < maxEv
    /\ events' = events + 1
    /\ stream' = stream + len
    /\ IF SkipsChunk(chunked)
       THEN /\ sawChunked' = TRUE
            /\ UNCHANGED <<buffer, size, capacity, termAt, oob, reallocFailed, dropped>>
       ELSE LET new_size == NewSize(size, len)
                d == GrowDecision(new_size, capacity, realloc_ok)
                cap2 == IF d = "grow" THEN NewCapacity(new_size) ELSE capacity
            IN  /\ UNCHANGED sawChunked
                /\ dropped' = (dropped \/ d = "drop")
                /\ reallocFailed' = (reallocFailed \/ d = "nomem")
                /\ IF d \in {"drop", "nomem"}
                   THEN UNCHANGED <<buffer, size, capacity, termAt, oob>>
                   ELSE /\ capacity' = cap2
                        /\ buffer' = AppendRun(buffer, stream, len)
                        /\ size' = new_size
                        /\ termAt' = new_size
                        \* bytes size .. new_size-1 and the terminator at new_size
                        /\ oob' = (new_size >= cap2)
    /\ UNCHANGED <<pc, op, args, client, respBuf, err, status_code, result, ret,
                   httpRequests, res_json, inbox, outWritten, failedAt>>
    /\ UNCHANGED restVars

\* HTTP_EVENT_ERROR and every other event: nothing but a log line
OnOtherEvent(maxEv) ==
    /\ pc = "perform"
    /\ ~oob
    /\ events < maxEv
    /\ events' = events + 1
    /\ UNCHANGED <<pc, op, args, client, buffer, size, capacity, respBuf, termAt,
                   oob, stream, sawChunked, reallocFailed, dropped, err,
                   status_code, result, ret, httpRequests, res_json, inbox,
                   outWritten, failedAt>>
    /\ UNCHANGED restVars

-----------------------------------------------------------------------------
(* Request helper: perform_http_request, lines 165-198 *)

\* esp_err_t values esp_http_client_perform returns
EspErrs == {"ESP_OK", "ESP_ERR_TIMEOUT", "ESP_FAIL"}

\* values of esp_http_client_get_status_code tried by the operation specification
StatusCodes == {0, 200, 299, 300, 401, 404, 429, 500, 600}

\* every status code of the request-helper specification
AllStatusCodes == 0 .. MaxStatus

\* Map HTTP status codes to errors
StatusResult(sc) ==
    IF sc >= 200 /\ sc < 300 THEN "AGENTMAIL_ERR_NONE"
    ELSE IF sc = 401 \/ sc = 403 THEN "AGENTMAIL_ERR_AUTH"
    ELSE IF sc = 404 THEN "AGENTMAIL_ERR_NOT_FOUND"
    ELSE IF sc = 429 THEN "AGENTMAIL_ERR_RATE_LIMIT"
    ELSE IF sc >= 500 THEN "AGENTMAIL_ERR_SERVER"
    ELSE "AGENTMAIL_ERR_OTHER"

\* a helper that looks at the status code before the transport error
PerformResult_statusFirst(e, sc) ==
    IF sc >= 200 /\ sc < 300 THEN "AGENTMAIL_ERR_NONE"
    ELSE IF e # "ESP_OK"
    THEN IF e = "ESP_ERR_TIMEOUT" THEN "AGENTMAIL_ERR_TIMEOUT"
         ELSE "AGENTMAIL_ERR_NETWORK"
    ELSE StatusResult(sc)

PerformResult(e, sc) ==
    IF e # "ESP_OK"
    THEN IF e = "ESP_ERR_TIMEOUT" THEN "AGENTMAIL_ERR_TIMEOUT"
         ELSE "AGENTMAIL_ERR_NETWORK"
    ELSE StatusResult(sc)

\* the lines perform_http_request logs after esp_http_client_perform
ResponseLog(c, e, sz) ==
    IF e # "ESP_OK" THEN <<"failed">>
    ELSE IF ~c.enable_logging THEN << >>
    ELSE IF sz > 0 /\ sz < 1024 THEN <<"status", "response">>
    ELSE <<"status">>

\* esp_http_client_perform returns e, the status code read back is sc
PerformReturn(e, sc) ==
    /\ pc = "perform"
    /\ pc' = "performed"
    /\ err' = e
    /\ status_code' = sc
    /\ result' = PerformResult(e, sc)
    /\ log' = log \o ResponseLog(client, e, size)
    /\ UNCHANGED <<op, args, client, respBuf, ret, httpRequests, res_json,
                   inbox, outWritten, failedAt>>
    /\ UNCHANGED <<recVars, url, sideVars, cfgVars>>
    /\ UNCHANGED accVars

-----------------------------------------------------------------------------
(* Client handle: agentmail_init, agentmail_destroy *)

NoClient ==
    [live |-> FALSE, api_key |-> "NULL", base_url |-> "NULL", timeout_ms |-> 0,
     enable_logging |-> FALSE, ctx |-> "NULL"]

\* agentmail_config_t values the caller passes to agentmail_init
Configs ==
    { [api_key |-> "key", base_url |-> "NULL", timeout_ms |-> 0,
       enable_logging |-> TRUE, ctx |-> "NULL"],
      [api_key |-> "key", base_url |-> "http://host/v0", timeout_ms |-> 5000,
       enable_logging |-> FALSE, ctx |-> "board"] }

\* the caller's config before it prepared one
NoConfig ==
    [api_key |-> "NULL", base_url |-> "NULL", timeout_ms |-> 0,
     enable_logging |-> FALSE, ctx |-> "NULL"]

NewClient(cfg) ==
    [live |-> TRUE,
     api_key |-> cfg.api_key,
     base_url |-> IF cfg.base_url # "NULL" THEN cfg.base_url ELSE DEFAULT_BASE_URL,
     timeout_ms |-> IF cfg.timeout_ms > 0 THEN cfg.timeout_ms ELSE DEFAULT_TIMEOUT_MS,
     enable_logging |-> cfg.enable_logging,
     ctx |-> cfg.ctx]

\* an agentmail_init that keeps the caller's pointers
Duplicated_none == {}

\* the char* fields agentmail_init fills with strdup: the handle owns a copy
Duplicated == {"api_key", "base_url"}

\* the string field f of the handle points to now: the handle's copy, the
\* constant default, or the caller's string as the caller left it
Pointee(f) ==
    IF f \in Duplicated \/ initCfg[f] = "NULL" THEN client[f] ELSE callerCfg[f]

\* the configuration a request through the handle reads
HandleView ==
    [client EXCEPT !.api_key = Pointee("api_key"), !.base_url = Pointee("base_url")]

-----------------------------------------------------------------------------
(* Public operations and their pointer arguments *)

RequestOps ==
    {"inbox_create", "inbox_get", "inbox_list", "inbox_update", "inbox_delete",
     "send", "messages_get", "message_get", "message_mark_read",
     "message_delete", "send_reply", "message_get_raw"}

Ops == RequestOps \cup {"init", "destroy"}

\* the pointers of each signature ("from", "to", "api_key" are fields of the
\* struct behind "options" / "config")
PointerArgs(o) ==
    CASE o = "init"              -> {"config", "api_key", "handle_out"}
      [] o = "destroy"           -> {"handle"}
      [] o = "inbox_create"      -> {"handle", "options", "inbox"}
      [] o = "inbox_get"         -> {"handle", "inbox_id", "inbox"}
      [] o = "inbox_list"        -> {"handle", "cursor", "inboxes"}
      [] o = "inbox_update"      -> {"handle", "inbox_id", "options"}
      [] o = "inbox_delete"      -> {"handle", "inbox_id"}
      [] o = "send"              -> {"handle", "options", "from", "to", "message_id_out"}
      [] o = "messages_get"      -> {"handle", "inbox_id", "query", "messages"}
      [] o = "message_get"       -> {"handle", "inbox_id", "message_id", "message"}
      [] o = "message_mark_read" -> {"handle", "inbox_id", "message_id"}
      [] o = "message_delete"    -> {"handle", "inbox_id", "message_id"}
      [] o = "send_reply"        -> {"handle", "inbox_id", "message_id", "options",
                                     "message_id_out"}
      [] o = "message_get_raw"   -> {"handle", "inbox_id", "message_id",
                                     "raw_content", "raw_size"}

\* the arguments each operation tests against NULL before anything else
Required(o) ==
    CASE o = "init"              -> {"config", "api_key", "handle_out"}
      [] o = "destroy"           -> {"handle"}
      [] o = "inbox_create"      -> {"handle", "inbox"}
      [] o = "inbox_get"         -> {"handle", "inbox_id", "inbox"}
      [] o = "inbox_list"        -> {"handle", "inboxes"}
      [] o = "inbox_update"      -> {"handle", "inbox_id"}
      [] o = "inbox_delete"      -> {"handle", "inbox_id"}
      [] o = "send"              -> {"handle", "options", "from", "to"}
      [] o = "messages_get"      -> {"handle", "inbox_id", "messages"}
      [] o = "message_get"       -> {"handle", "inbox_id", "message_id", "message"}
      [] o = "message_mark_read" -> {"handle", "inbox_id", "message_id"}
      [] o = "message_delete"    -> {"handle", "inbox_id", "message_id"}
      [] o = "send_reply"        -> {"handle", "inbox_id", "message_id", "options"}
      [] o = "message_get_raw"   -> {"handle", "inbox_id", "message_id",
                                     "raw_content", "raw_size"}

\* nn: the non-NULL pointers of a call; a field of a NULL struct does not exist
ArgSets(o) ==
    { nn \in SUBSET PointerArgs(o) :
        /\ ("api_key" \in nn => "config" \in nn)
        /\ (nn \cap {"from", "to"} # {} => "options" \in nn) }

\* a validation that forgets options->to
ArgsValid_skipTo(o, nn) == (Required(o) \ {"to"}) \subseteq nn

\* a validation that rejects a NULL optional pointer too
ArgsValid_allPointers(o, nn) == PointerArgs(o) \subseteq nn

ArgsValid(o, nn) == Required(o) \subseteq nn

\* operations that zero their output record before the request
DecodingOps ==
    {"inbox_create", "inbox_get", "inbox_list", "messages_get", "message_get"}

\* operations that build a JSON payload and check its allocation
PayloadOps == {"inbox_create", "inbox_update", "send", "send_reply"}

\* operations that only report the request's result
StatusOnlyOps ==
    {"inbox_update", "inbox_delete", "message_mark_read", "message_delete"}

-----------------------------------------------------------------------------
(* Output records *)

\* the caller's record before the call: contents the library knows nothing about
GarbageInbox ==
    [inbox_id |-> "?", name |-> "?", email_address |-> "?", created_at |-> "?",
     metadata |-> "?"]

\* memset(inbox, 0, sizeof(agentmail_inbox_t))
ZeroInbox ==
    [inbox_id |-> "NULL", name |-> "NULL", email_address |-> "NULL",
     created_at |-> "NULL", metadata |-> "NULL"]

-----------------------------------------------------------------------------
(* cJSON trees of a response *)

Keys == {"inbox_id", "address", "name", "created_at", "metadata", "message_id"}

Absent == [t |-> "absent", v |-> ""]

NullTree == [t |-> "NULL", m |-> [k \in Keys |-> Absent]]

ArrayTree == [t |-> "array", m |-> [k \in Keys |-> Absent]]

\* the items a response may hold under each key
ItemsFor(k) ==
    CASE k = "inbox_id"   -> {Absent, [t |-> "string", v |-> "a@x.to"],
                              [t |-> "number", v |-> "7"]}
      [] k = "address"    -> {Absent, [t |-> "string", v |-> "addr@x.to"],
                              [t |-> "null", v |-> ""]}
      [] k = "name"       -> {Absent, [t |-> "string", v |-> "Dev"],
                              [t |-> "bool", v |-> "true"]}
      [] k = "created_at" -> {Absent, [t |-> "string", v |-> "2024-01-01T00:00:00Z"],
                              [t |-> "number", v |-> "1704067200"]}
      [] k = "metadata"   -> {Absent, [t |-> "string", v |-> "meta"],
                              [t |-> "object", v |-> "{\"device\":\"d\"}"],
                              [t |-> "array", v |-> "[1]"]}
      [] k = "message_id" -> {Absent, [t |-> "string", v |-> "m1"],
                              [t |-> "number", v |-> "1"]}

ObjectTree(a, b, c, d, e) ==
    [t |-> "object",
     m |-> [k \in Keys |->
              CASE k = "inbox_id"   -> a
                [] k = "address"    -> b
                [] k = "name"       -> c
                [] k = "created_at" -> d
                [] k = "metadata"   -> e
                [] k = "message_id" -> Absent]]

\* a send response: an object with at most a message_id
MessageIdTree(x) ==
    [t |-> "object", m |-> [k \in Keys |-> IF k = "message_id" THEN x ELSE Absent]]

SendTrees == { MessageIdTree(x) : x \in ItemsFor("message_id") } \cup {ArrayTree}

\* every tree tried by the decoding specification
Trees ==
    { ObjectTree(a, b, c, d, e) :
        a \in ItemsFor("inbox_id"), b \in ItemsFor("address"),
        c \in ItemsFor("name"), d \in ItemsFor("created_at"),
        e \in ItemsFor("metadata") }
    \cup {ArrayTree}

FullMembers ==
    [k \in Keys |->
        IF k \in {"metadata", "message_id"} THEN Absent
        ELSE CHOOSE it \in ItemsFor(k) : it.t = "string"]

\* the trees tried by the operation specification
SmallTrees ==
    { [t |-> "object", m |-> FullMembers],
      [t |-> "object", m |-> [FullMembers EXCEPT !["inbox_id"] = Absent,
                                                 !["name"] = [t |-> "bool", v |-> "true"]]],
      ArrayTree }

\* a parser that makes a value out of an empty body
ParseOutcomes_emptyParses(sz, trees) == trees \cup {NullTree}

\* cJSON_Parse(response.buffer): NULL for an empty body
ParseOutcomes(sz, trees) ==
    IF sz = 0 THEN {NullTree} ELSE trees \cup {NullTree}

\* cJSON_GetObjectItem: NULL unless tree is an object with a member named k
GetObjectItem(tree, k) ==
    IF tree.t = "object" /\ k \in DOMAIN tree.m THEN tree.m[k] ELSE Absent

\* an extraction without the cJSON_IsString test
StringField_anyType(tree, k) ==
    LET item == GetObjectItem(tree, k)
    IN  IF item.t # "absent" THEN item.v ELSE "NULL"

\* if (cJSON_IsString(item)) field = strdup(item->valuestring);
StringField(tree, k) ==
    LET item == GetObjectItem(tree, k)
    IN  IF item.t = "string" THEN item.v ELSE "NULL"

\* metadata: a string is copied, an object is printed unformatted
MetadataField(tree) ==
    LET item == GetObjectItem(tree, "metadata")
    IN  IF item.t = "string" THEN item.v
        ELSE IF item.t = "object" THEN item.v
        ELSE "NULL"

\* the field extraction of agentmail_inbox_create and agentmail_inbox_get
DecodeInbox(tree) ==
    [inbox_id      |-> StringField(tree, "inbox_id"),
     email_address |-> StringField(tree, "address"),
     name          |-> StringField(tree, "name"),
     created_at    |-> StringField(tree, "created_at"),
     metadata      |-> MetadataField(tree)]

-----------------------------------------------------------------------------
(* Message and list records *)

\* the caller's agentmail_message_t before the call
GarbageMessage ==
    [message_id |-> "?", thread_id |-> "?", from |-> "?", to |-> "?",
     subject |-> "?", body_text |-> "?", body_html |-> "?", timestamp |-> "?",
     is_read |-> TRUE, attachments |-> "?", attachment_count |-> -1]

\* memset(message, 0, sizeof(agentmail_message_t)); calloc'ed array elements
ZeroMessage ==
    [message_id |-> "NULL", thread_id |-> "NULL", from |-> "NULL", to |-> "NULL",
     subject |-> "NULL", body_text |-> "NULL", body_html |-> "NULL",
     timestamp |-> "NULL", is_read |-> FALSE, attachments |-> "NULL",
     attachment_count |-> 0]

\* a list record: arr is the array pointer ("NULL", "owned", "?": garbage),
\* items the elements of the array it points to
GarbageInboxList ==
    [arr |-> "?", items |-> << >>, count |-> -1, next_cursor |-> "?"]

\* memset(inboxes, 0, sizeof(agentmail_inbox_list_t))
ZeroInboxList ==
    [arr |-> "NULL", items |-> << >>, count |-> 0, next_cursor |-> "NULL"]

GarbageMessageList ==
    [arr |-> "?", items |-> << >>, count |-> -1, next_cursor |-> "?", total |-> -1]

\* memset(messages, 0, sizeof(agentmail_message_list_t))
ZeroMessageList ==
    [arr |-> "NULL", items |-> << >>, count |-> 0, next_cursor |-> "NULL", total |-> 0]

-----------------------------------------------------------------------------
(* cJSON trees of message and list responses *)

MsgKeys ==
    {"message_id", "thread_id", "from", "to", "subject", "text", "html",
     "created_at", "is_read", "labels"}

\* most elements a JSON array of a response holds
MaxItems == 2

Str(x) == [t |-> "string", v |-> x]

\* a message object: id, subject, text and read flag as given, the other
\* string members all present (rest = TRUE) or all absent
MessageTree(id, subject, text, is_read, rest) ==
    [t |-> "object",
     m |-> [k \in MsgKeys |->
              CASE k = "message_id" -> id
                [] k = "subject"    -> subject
                [] k = "text"       -> text
                [] k = "is_read"    -> is_read
                [] k = "thread_id"  -> IF rest THEN Str("t1") ELSE Absent
                [] k = "from"       -> IF rest THEN Str("a@x.to") ELSE Absent
                [] k = "to"         -> IF rest THEN Str("b@y.org") ELSE Absent
                [] k = "html"       -> IF rest THEN Str("<p>hi</p>") ELSE Absent
                [] k = "created_at" -> IF rest THEN Str("2024-01-01T00:00:00Z") ELSE Absent
                [] k = "labels"     -> IF rest THEN [t |-> "array", v |-> "[]"] ELSE Absent]]

ReadItems ==
    {Absent, [t |-> "true", v |-> ""], [t |-> "false", v |-> ""], Str("yes")}

\* the message objects tried for message_get
MessageTrees ==
    { MessageTree(id, su, tx, rd, rest) :
        id \in ItemsFor("message_id"), su \in {Absent, Str("Hello")},
        tx \in {Absent, Str("body"), [t |-> "null", v |-> ""]},
        rd \in ReadItems, rest \in BOOLEAN }

\* a JSON value that is neither an object nor an array
NumberTree == [t |-> "number", m |-> << >>]

\* the elements tried inside a message array
MsgElems ==
    { MessageTree(Str("m1"), Absent, Absent, [t |-> "false", v |-> ""], FALSE),
      MessageTree(Str("m2"), Str("Hello"), Str("body"), [t |-> "true", v |-> ""], TRUE),
      MessageTree([t |-> "number", v |-> "1"], Absent, [t |-> "null", v |-> ""],
                  Str("yes"), FALSE),
      NumberTree }

\* the elements tried inside an inbox array
InboxElems ==
    { [t |-> "object", m |-> FullMembers],
      [t |-> "object", m |-> [FullMembers EXCEPT !["metadata"] = Str("meta")]],
      [t |-> "object", m |-> [FullMembers EXCEPT !["inbox_id"] = Absent,
                                                 !["name"] = [t |-> "bool", v |-> "true"]]],
      NumberTree }

\* the arrays of at most MaxItems elements of elems
ArraysOf(elems) ==
    UNION { [1 .. n -> elems] : n \in 0 .. MaxItems }

ArrayItem(a) == [t |-> "array", v |-> "", a |-> a]

\* the values tried under the collection field besides arrays
NonArrayItems == {Absent, Str("none"), [t |-> "object", v |-> "{}"]}

TokenItems == {Absent, Str("c2"), [t |-> "number", v |-> "2"]}

CountItems == {Absent, [t |-> "number", v |-> "7"], Str("7")}

\* count->valueint of the numbers in CountItems
ValueInt(v) == IF v = "7" THEN 7 ELSE 0

\* a list response that is an object: the collection field, next_page_token, count
ListObject(field, coll, token, cnt) ==
    [t |-> "object",
     m |-> [k \in {field, "next_page_token", "count"} |->
              IF k = field THEN coll
              ELSE IF k = "next_page_token" THEN token ELSE cnt]]

\* a list response that is a bare top-level array
RootArray(a) == [t |-> "array", m |-> << >>, a |-> a]

\* every list response tried for a collection field and its element set
ListTrees(field, elems) ==
    { ListObject(field, coll, token, cnt) :
        coll \in { ArrayItem(a) : a \in ArraysOf(elems) } \cup NonArrayItems,
        token \in TokenItems, cnt \in CountItems }
    \cup { RootArray(a) : a \in ArraysOf(elems) }
    \cup {NumberTree}

\* cJSON_IsArray, cJSON_GetArraySize, cJSON_GetArrayItem
IsArray(x) == x.t = "array"

ArrayElems(x) == IF IsArray(x) /\ "a" \in DOMAIN x THEN x.a ELSE << >>

\* cJSON_IsBool
IsBool(x) == x.t \in {"true", "false"}

\* a selection that never falls back to the top-level value
SelectArray_fieldOnly(tree, field) == GetObjectItem(tree, field)

\* data = cJSON_GetObjectItem(res_json, field);
\* if (!data || !cJSON_IsArray(data)) data = res_json;
SelectArray(tree, field) ==
    LET data == GetObjectItem(tree, field)
    IN  IF data.t = "absent" \/ ~IsArray(data) THEN tree ELSE data

\* the element extraction of agentmail_inbox_list: no metadata
DecodeInboxItem(item) ==
    [inbox_id      |-> StringField(item, "inbox_id"),
     email_address |-> StringField(item, "address"),
     name          |-> StringField(item, "name"),
     created_at    |-> StringField(item, "created_at"),
     metadata      |-> "NULL"]

\* a read flag that takes any present value as true
ReadField_truthy(tree) == GetObjectItem(tree, "is_read").t # "absent"

\* if (cJSON_IsBool(is_read)) msg->is_read = cJSON_IsTrue(is_read);
ReadField(tree) ==
    LET item == GetObjectItem(tree, "is_read")
    IN  IF IsBool(item) THEN item.t = "true" ELSE FALSE

\* the field extraction of agentmail_message_get
DecodeMessage(tree) ==
    [message_id |-> StringField(tree, "message_id"),
     thread_id  |-> StringField(tree, "thread_id"),
     from       |-> StringField(tree, "from"),
     to         |-> StringField(tree, "to"),
     subject    |-> StringField(tree, "subject"),
     body_text  |-> StringField(tree, "text"),
     body_html  |-> StringField(tree, "html"),
     timestamp  |-> StringField(tree, "created_at"),
     is_read    |-> ReadField(tree),
     attachments |-> "NULL",
     attachment_count |-> 0]

\* the element extraction of agentmail_messages_get
DecodeMessageItem(item) ==
    [message_id |-> StringField(item, "message_id"),
     thread_id  |-> StringField(item, "thread_id"),
     from       |-> StringField(item, "from"),
     to         |-> StringField(item, "to"),
     subject    |-> StringField(item, "subject"),
     body_text  |-> StringField(item, "text"),
     body_html  |-> StringField(item, "html"),
     timestamp  |-> StringField(item, "created_at"),
     is_read    |-> ReadField(item),
     attachments |-> "NULL",
     attachment_count |-> 0]

\* next_cursor of a list: strdup of a string next_page_token
NextCursor(tree) == StringField(tree, "next_page_token")

\* if (cJSON_IsNumber(count)) messages->total = count->valueint;
Total(tree) ==
    LET item == GetObjectItem(tree, "count")
    IN  IF item.t = "number" THEN ValueInt(item.v) ELSE 0

\* the array part of agentmail_inbox_list: calloc of count elements, then
\* one extraction per element; nothing when the array is empty or calloc fails
DecodeInboxList(tree, calloc_ok) ==
    LET a == ArrayElems(SelectArray(tree, "inboxes"))
        filled == Len(a) > 0 /\ calloc_ok
    IN  [arr   |-> IF filled THEN "owned" ELSE "NULL",
         items |-> IF filled THEN [i \in 1 .. Len(a) |-> DecodeInboxItem(a[i])]
                   ELSE << >>,
         count |-> IF filled THEN Len(a) ELSE 0,
         next_cursor |-> NextCursor(tree)]

\* the array part of agentmail_messages_get, then next_cursor and total
DecodeMessageList(tree, calloc_ok) ==
    LET a == ArrayElems(SelectArray(tree, "messages"))
        filled == Len(a) > 0 /\ calloc_ok
    IN  [arr   |-> IF filled THEN "owned" ELSE "NULL",
         items |-> IF filled THEN [i \in 1 .. Len(a) |-> DecodeMessageItem(a[i])]
                   ELSE << >>,
         count |-> IF filled THEN Len(a) ELSE 0,
         next_cursor |-> NextCursor(tree),
         total |-> Total(tree)]

-----------------------------------------------------------------------------
(* Path and URL of a request: snprintf into fixed buffers, by length *)

\* a base URL of 500 characters
LongBaseUrl == "http://host/(488 more characters)"

\* strlen of the base URLs of the model
Strlen(s) ==
    CASE s = DEFAULT_BASE_URL -> 27
      [] s = "http://host/v0" -> 14
      [] s = LongBaseUrl      -> 500
      [] OTHER                -> 0

\* char url[512]
URL_SIZE == 512

\* sizeof(path) of each operation that formats a path
PathSize(o) ==
    CASE o \in {"inbox_get", "inbox_update", "inbox_delete"} -> 256
      [] o = "messages_get" -> 1024
      [] OTHER -> 512

Min(a, b) == IF a < b THEN a ELSE b

\* the characters "%d" prints for a positive int
RECURSIVE DecimalLen(_)
DecimalLen(n) == IF n < 10 THEN 1 ELSE 1 + DecimalLen(n \div 10)

\* the lengths of the strings a call passes; -1 stands for a NULL optional
\* string, limit and unread_only are the values themselves
NoLens ==
    [inbox_id |-> 0, message_id |-> 0, from |-> 0, cursor |-> -1,
     thread_id |-> -1, limit |-> 0, unread_only |-> FALSE]

\* the string lengths tried by the URL specification
IdLens == {1, 36, 246, 247, 470, 1100}

OptLens == {-1, 8, 1000}

UrlLens ==
    { [inbox_id |-> i, message_id |-> m, from |-> i, cursor |-> c,
       thread_id |-> t, limit |-> l, unread_only |-> u] :
        i \in IdLens, m \in {1, 36, 470}, c \in OptLens, t \in OptLens,
        l \in {0, 100}, u \in BOOLEAN }

\* the lengths used by the operation specification
ShortLens ==
    { [inbox_id |-> 36, message_id |-> 36, from |-> 36, cursor |-> 8,
       thread_id |-> -1, limit |-> 0, unread_only |-> TRUE] }

\* a formatting that stores every character whatever the buffer size
Snprintf_unbounded(bufsz, n) ==
    [size |-> bufsz, want |-> n, kept |-> n, offset |-> n, oobWrite |-> FALSE]

\* a path buffer: size = sizeof(path), want = length of the complete path,
\* kept = length of the string stored, offset = the running int offset,
\* oobWrite = snprintf was handed a pointer past the end of the buffer
\* snprintf(path, size, ...) of n characters into an empty buffer
Snprintf(bufsz, n) ==
    [size |-> bufsz, want |-> n, kept |-> Min(n, bufsz - 1), offset |-> n,
     oobWrite |-> FALSE]

\* offset += snprintf(path + offset, sizeof(path) - offset, ...) of n
\* characters: sizeof(path) - offset is a size_t, so an offset beyond the
\* buffer makes it huge and the write lands outside the buffer
SnprintfAt(p, n) ==
    IF p.offset > p.size
    THEN [p EXCEPT !.want = @ + n, !.offset = @ + n, !.oobWrite = TRUE]
    ELSE IF p.offset = p.size
    THEN [p EXCEPT !.want = @ + n, !.offset = @ + n]
    ELSE [p EXCEPT !.want = @ + n, !.offset = @ + n,
                   !.kept = p.offset + Min(n, p.size - p.offset - 1)]

\* limit > 0 ? limit : 20
Limit(l) == IF l > 0 THEN l ELSE 20

\* the path of each operation; nn: the non-NULL pointer arguments
BuildPath(o, nn, lens) ==
    CASE o = "inbox_create" ->
           [size |-> 9, want |-> 8, kept |-> 8, offset |-> 8, oobWrite |-> FALSE]
      [] o \in {"inbox_get", "inbox_update", "inbox_delete"} ->
           Snprintf(PathSize(o), 9 + lens.inbox_id)
      [] o = "inbox_list" ->
           LET p == Snprintf(PathSize(o), 15 + DecimalLen(Limit(lens.limit)))
           IN  IF "cursor" \in nn /\ lens.cursor >= 0
               THEN [SnprintfAt(p, 8 + lens.cursor) EXCEPT !.offset = p.offset]
               ELSE p
      [] o = "send" ->
           Snprintf(PathSize(o), 9 + lens.from + 14)
      [] o = "messages_get" ->
           LET q  == "query" \in nn
               p0 == Snprintf(PathSize(o),
                              9 + lens.inbox_id + 16
                              + DecimalLen(Limit(IF q THEN lens.limit ELSE 0)))
               p1 == IF q /\ lens.cursor >= 0
                     THEN SnprintfAt(p0, 8 + lens.cursor) ELSE p0
               p2 == IF q /\ lens.unread_only THEN SnprintfAt(p1, 12) ELSE p1
               p3 == IF q /\ lens.thread_id >= 0
                     THEN SnprintfAt(p2, 11 + lens.thread_id) ELSE p2
           IN  p3
      [] o \in {"message_get", "message_mark_read", "message_delete"} ->
           Snprintf(PathSize(o), 9 + lens.inbox_id + 10 + lens.message_id)
      [] o = "send_reply" ->
           Snprintf(PathSize(o), 9 + lens.inbox_id + 10 + lens.message_id + 6)
      [] o = "message_get_raw" ->
           Snprintf(PathSize(o), 9 + lens.inbox_id + 10 + lens.message_id + 4)

\* no request built
NoUrl ==
    [base |-> 0, path |-> [size |-> 0, want |-> 0, kept |-> 0, offset |-> 0,
                           oobWrite |-> FALSE],
     kept |-> 0]

\* snprintf(url, sizeof(url), "%s%s", client->base_url, path)
BuildUrl(c, o, nn, lens) ==
    LET p == BuildPath(o, nn, lens)
    IN  [base |-> Strlen(c.base_url), path |-> p,
         kept |-> Snprintf(URL_SIZE, Strlen(c.base_url) + p.kept).kept]

\* operations that hand a body to perform_http_request
BodyOps == PayloadOps \cup {"message_mark_read"}

\* the lines perform_http_request logs before the request
RequestLog(c, o) ==
    IF c.enable_logging
    THEN IF o \in BodyOps THEN <<"request", "body">> ELSE <<"request">>
    ELSE << >>

-----------------------------------------------------------------------------
(* The public operations *)

callVars == <<err, status_code, result, res_json>>

\* agentmail_init
AgentmailInit(nn, cfg, alloc_ok) ==
    /\ pc = "idle"
    /\ ~client.live
    /\ cfg = callerCfg
    /\ pc' = "done"
    /\ op' = "init"
    /\ args' = nn
    /\ IF ~ArgsValid("init", nn)
       THEN /\ ret' = "AGENTMAIL_ERR_INVALID_ARG"
            /\ UNCHANGED <<client, outWritten, failedAt, initCfg>>
       ELSE IF ~alloc_ok
       THEN /\ ret' = "AGENTMAIL_ERR_NO_MEM"
            /\ failedAt' = "client"
            /\ UNCHANGED <<client, outWritten, initCfg>>
       ELSE /\ ret' = "AGENTMAIL_ERR_NONE"
            /\ client' = NewClient(cfg)
            /\ initCfg' = cfg
            /\ outWritten' = TRUE
            /\ UNCHANGED failedAt
    /\ UNCHANGED <<respBuf, httpRequests, inbox, callerCfg>>
    /\ UNCHANGED <<recVars, url, log, sideVars>>
    /\ UNCHANGED callVars
    /\ UNCHANGED accVars

\* agentmail_destroy
AgentmailDestroy(nn) ==
    /\ pc = "idle"
    /\ ("handle" \in nn => client.live)
    /\ pc' = "done"
    /\ op' = "destroy"
    /\ args' = nn
    /\ IF ~ArgsValid("destroy", nn)
       THEN /\ ret' = "AGENTMAIL_ERR_INVALID_ARG"
            /\ UNCHANGED client
       ELSE /\ ret' = "AGENTMAIL_ERR_NONE"
            /\ client' = NoClient
    /\ UNCHANGED <<respBuf, httpRequests, inbox, outWritten, failedAt>>
    /\ UNCHANGED restVars
    /\ UNCHANGED callVars
    /\ UNCHANGED accVars

\* a request operation called with a NULL required argument
CallInvalid(o, nn) ==
    /\ pc = "idle"
    /\ ("handle" \in nn => client.live)
    /\ ~ArgsValid(o, nn)
    /\ pc' = "done"
    /\ op' = o
    /\ args' = nn
    /\ ret' = "AGENTMAIL_ERR_INVALID_ARG"
    /\ UNCHANGED <<client, respBuf, httpRequests, inbox, outWritten, failedAt>>
    /\ UNCHANGED restVars
    /\ UNCHANGED callVars
    /\ UNCHANGED accVars

\* the steps between argument validation and esp_http_client_perform that can
\* fail, in program order
FailPoints(o) ==
    (IF o \in PayloadOps THEN {"json", "payload"} ELSE {})
    \cup {"calloc", "http_init"}

\* an operation that leaves the output record alone until it decodes
ZeroOutputs_never(o) ==
    /\ outWritten' = FALSE
    /\ UNCHANGED <<inbox, inboxes, message, messages>>

\* memset of the output record, done right after validation
ZeroOutputs(o) ==
    /\ outWritten' = (o \in DecodingOps)
    /\ inbox' = IF o \in {"inbox_create", "inbox_get"} THEN ZeroInbox ELSE inbox
    /\ inboxes' = IF o = "inbox_list" THEN ZeroInboxList ELSE inboxes
    /\ message' = IF o = "message_get" THEN ZeroMessage ELSE message
    /\ messages' = IF o = "messages_get" THEN ZeroMessageList ELSE messages

\* a request operation that returns before the request is performed
CallFail(o, nn, lens, fail) ==
    /\ pc = "idle"
    /\ client.live
    /\ ArgsValid(o, nn)
    /\ fail \in FailPoints(o)
    \* perform_http_request builds the URL and logs it before its calloc
    /\ url' = IF fail \in {"calloc", "http_init"}
              THEN BuildUrl(client, o, nn, lens) ELSE url
    /\ log' = IF fail \in {"calloc", "http_init"}
              THEN RequestLog(client, o) ELSE log
    /\ UNCHANGED <<raw_content, raw_size, sideVars, cfgVars>>
    /\ pc' = "done"
    /\ op' = o
    /\ args' = nn
    /\ ZeroOutputs(o)
    /\ failedAt' = fail
    /\ ret' = IF fail = "http_init" THEN "AGENTMAIL_ERR_HTTP"
              ELSE "AGENTMAIL_ERR_NO_MEM"
    /\ result' = IF fail = "http_init" THEN "AGENTMAIL_ERR_HTTP"
                 ELSE IF fail = "calloc" THEN "AGENTMAIL_ERR_NO_MEM"
                 ELSE result
    \* perform_http_request frees the buffer when esp_http_client_init fails,
    \* and the operation frees response.buffer again
    /\ respBuf' = IF fail = "http_init" THEN "double_freed" ELSE "none"
    /\ capacity' = IF fail = "http_init" THEN INITIAL_CAPACITY ELSE capacity
    /\ UNCHANGED <<client, httpRequests, err, status_code, res_json>>
    /\ UNCHANGED <<buffer, size, termAt, oob, stream, events, sawChunked,
                   reallocFailed, dropped>>

\* a request operation up to the call of esp_http_client_perform
CallPerform(o, nn, lens) ==
    /\ pc = "idle"
    /\ client.live
    /\ ArgsValid(o, nn)
    /\ url' = BuildUrl(client, o, nn, lens)
    /\ log' = RequestLog(client, o)
    /\ UNCHANGED <<raw_content, raw_size, sideVars, cfgVars>>
    /\ pc' = "perform"
    /\ op' = o
    /\ args' = nn
    /\ ZeroOutputs(o)
    /\ respBuf' = "live"
    /\ buffer' = << >>
    /\ capacity' = INITIAL_CAPACITY
    /\ size' = 0
    /\ termAt' = 0
    /\ httpRequests' = httpRequests + 1
    /\ UNCHANGED <<client, ret, oob, stream, events, sawChunked, reallocFailed,
                   dropped, failedAt>>
    /\ UNCHANGED callVars

\* inbox_update, inbox_delete, message_mark_read, message_delete after the request
FinishStatusOnly ==
    /\ pc = "performed"
    /\ op \in StatusOnlyOps
    /\ pc' = "done"
    /\ respBuf' = "freed"
    /\ ret' = result
    /\ UNCHANGED <<op, args, client, httpRequests, inbox, outWritten, failedAt>>
    /\ UNCHANGED restVars
    /\ UNCHANGED callVars
    /\ UNCHANGED accVars

\* a decoding operation whose request failed
FinishDecodeError ==
    /\ pc = "performed"
    /\ op \in DecodingOps
    /\ result # "AGENTMAIL_ERR_NONE"
    /\ pc' = "done"
    /\ respBuf' = "freed"
    /\ ret' = result
    /\ UNCHANGED <<op, args, client, httpRequests, inbox, outWritten, failedAt>>
    /\ UNCHANGED restVars
    /\ UNCHANGED callVars
    /\ UNCHANGED accVars

\* the collection field each list operation looks for
ListField(o) == IF o = "inbox_list" THEN "inboxes" ELSE "messages"

\* the decode of this response reaches calloc(count, ...) with count > 0
CallsCalloc(o, tree) ==
    /\ o \in {"inbox_list", "messages_get"}
    /\ tree # NullTree
    /\ Len(ArrayElems(SelectArray(tree, ListField(o)))) > 0

\* a decoding operation after a 2xx response: parse, then extract
FinishDecode(tree, calloc_ok) ==
    /\ pc = "performed"
    /\ op \in DecodingOps
    /\ result = "AGENTMAIL_ERR_NONE"
    \* calloc is only called for a non-empty array of a list response
    /\ ~calloc_ok => CallsCalloc(op, tree)
    /\ pc' = "done"
    /\ res_json' = tree
    /\ respBuf' = "freed"
    /\ IF tree = NullTree
       THEN /\ ret' = "AGENTMAIL_ERR_PARSE"
            /\ UNCHANGED <<inbox, inboxes, message, messages>>
       ELSE /\ ret' = "AGENTMAIL_ERR_NONE"
            /\ inbox' = IF op \in {"inbox_create", "inbox_get"}
                        THEN DecodeInbox(tree) ELSE inbox
            /\ inboxes' = IF op = "inbox_list"
                          THEN DecodeInboxList(tree, calloc_ok) ELSE inboxes
            /\ message' = IF op = "message_get"
                          THEN DecodeMessage(tree) ELSE message
            /\ messages' = IF op = "messages_get"
                           THEN DecodeMessageList(tree, calloc_ok) ELSE messages
    /\ UNCHANGED <<raw_content, raw_size, url, log, sideVars, cfgVars>>
    /\ UNCHANGED <<op, args, client, httpRequests, outWritten, failedAt>>
    /\ UNCHANGED <<err, status_code, result>>
    /\ UNCHANGED accVars

\* a send that treats an unparsable body like the decoding operations do
FinishSend_parseRequired(tree) ==
    /\ pc = "performed"
    /\ op \in {"send", "send_reply"}
    /\ pc' = "done"
    /\ respBuf' = "freed"
    /\ IF result # "AGENTMAIL_ERR_NONE"
       THEN /\ ret' = result
            /\ tree = NullTree
            /\ UNCHANGED <<res_json, outWritten>>
       ELSE /\ ret' = IF tree = NullTree THEN "AGENTMAIL_ERR_PARSE"
                      ELSE "AGENTMAIL_ERR_NONE"
            /\ res_json' = tree
            /\ outWritten' = ("message_id_out" \in args)
    /\ UNCHANGED <<op, args, client, httpRequests, inbox, failedAt>>
    /\ UNCHANGED restVars
    /\ UNCHANGED <<err, status_code, result>>
    /\ UNCHANGED accVars

\* send and send_reply after the request
FinishSend(tree) ==
    /\ pc = "performed"
    /\ op \in {"send", "send_reply"}
    /\ pc' = "done"
    /\ respBuf' = "freed"
    /\ IF result # "AGENTMAIL_ERR_NONE"
       THEN /\ ret' = result
            /\ tree = NullTree
            /\ UNCHANGED <<res_json, outWritten>>
       ELSE /\ ret' = "AGENTMAIL_ERR_NONE"
            /\ IF "message_id_out" \in args
               THEN /\ res_json' = tree
                    /\ outWritten' = (StringField(tree, "message_id") # "NULL")
               ELSE /\ tree = NullTree
                    /\ UNCHANGED <<res_json, outWritten>>
    /\ UNCHANGED <<op, args, client, httpRequests, inbox, failedAt>>
    /\ UNCHANGED restVars
    /\ UNCHANGED <<err, status_code, result>>
    /\ UNCHANGED accVars

\* a message_get_raw that stores its outputs before it looks at the result
FinishGetRaw_writesFirst ==
    /\ pc = "performed"
    /\ op = "message_get_raw"
    /\ pc' = "done"
    /\ ret' = result
    /\ outWritten' = TRUE
    /\ raw_content' = "response.buffer"
    /\ raw_size' = size
    /\ respBuf' = IF result # "AGENTMAIL_ERR_NONE" THEN "freed" ELSE "caller"
    /\ UNCHANGED <<op, args, client, httpRequests, inbox, failedAt>>
    /\ UNCHANGED <<inboxes, message, messages, url, log, sideVars, cfgVars>>
    /\ UNCHANGED callVars
    /\ UNCHANGED accVars

\* message_get_raw after the request
FinishGetRaw ==
    /\ pc = "performed"
    /\ op = "message_get_raw"
    /\ pc' = "done"
    /\ ret' = result
    /\ IF result # "AGENTMAIL_ERR_NONE"
       THEN /\ respBuf' = "freed"
            /\ UNCHANGED <<outWritten, raw_content, raw_size>>
       ELSE /\ respBuf' = "caller"
            /\ outWritten' = TRUE
            /\ raw_content' = "response.buffer"
            /\ raw_size' = size
    /\ UNCHANGED <<op, args, client, httpRequests, inbox, failedAt>>
    /\ UNCHANGED <<inboxes, message, messages, url, log, sideVars, cfgVars>>
    /\ UNCHANGED callVars
    /\ UNCHANGED accVars

\* the operation has returned; the caller goes on to its next call
Return ==
    /\ pc = "done"
    /\ pc' = "idle"
    /\ op' = "none"
    /\ args' = {}
    /\ buffer' = << >>
    /\ size' = 0
    /\ capacity' = 0
    /\ respBuf' = "none"
    /\ termAt' = 0
    /\ oob' = FALSE
    /\ stream' = 0
    /\ events' = 0
    /\ sawChunked' = FALSE
    /\ reallocFailed' = FALSE
    /\ dropped' = FALSE
    /\ err' = "ESP_OK"
    /\ status_code' = 0
    /\ result' = "AGENTMAIL_ERR_NONE"
    /\ ret' = "AGENTMAIL_ERR_NONE"
    /\ httpRequests' = 0
    /\ res_json' = NullTree
    /\ inbox' = GarbageInbox
    /\ outWritten' = FALSE
    /\ failedAt' = "none"
    /\ inboxes' = GarbageInboxList
    /\ message' = GarbageMessage
    /\ messages' = GarbageMessageList
    /\ raw_content' = "?"
    /\ raw_size' = -1
    /\ url' = NoUrl
    /\ log' = << >>
    /\ UNCHANGED <<client, sideVars, cfgVars>>

-----------------------------------------------------------------------------
(* Memory management: the free operations, lines 1053-1113 *)

\* most free operations called on the records of one call
MaxFrees == 3

\* no free operation called yet
NoReleased == [calls |-> << >>, ptrs |-> << >>]

InboxPtrFields == {"inbox_id", "name", "email_address", "created_at", "metadata"}

MessagePtrFields ==
    {"message_id", "thread_id", "from", "to", "subject", "body_text",
     "body_html", "timestamp"}

\* the pointer stored in field f of element i (0: the record itself) of rec
Ptr(rec, i, f) == [rec |-> rec, i |-> i, f |-> f]

\* the sequence of the elements of a finite set, in some fixed order
RECURSIVE SeqOf(_)
SeqOf(S) ==
    IF S = {} THEN << >>
    ELSE LET x == CHOOSE y \in S : TRUE IN <<x>> \o SeqOf(S \ {x})

\* the non-NULL pointers free() is handed by agentmail_inbox_free(r)
InboxFrees(r, name, i) ==
    SeqOf({ Ptr(name, i, f) : f \in { g \in InboxPtrFields : r[g] # "NULL" } })

\* message->attachments[k - 1]
AttachmentName == <<"attachments[0]", "attachments[1]">>

\* the non-NULL pointers free() is handed by agentmail_message_free(r): the
\* strings, each attachment, the attachment array
MessageFrees(r, name, i) ==
    SeqOf({ Ptr(name, i, f) : f \in { g \in MessagePtrFields : r[g] # "NULL" } })
    \o (IF r.attachments # "NULL"
        THEN [k \in 1 .. r.attachment_count |-> Ptr(name, i, AttachmentName[k])]
             \o << Ptr(name, i, "attachments") >>
        ELSE << >>)

RECURSIVE Flatten(_)
Flatten(ss) == IF ss = << >> THEN << >> ELSE Head(ss) \o Flatten(Tail(ss))

\* the pointers agentmail_inbox_list_free(l) frees: every element's strings,
\* the array, next_cursor
InboxListFrees(l) ==
    (IF l.arr # "NULL"
     THEN Flatten([i \in 1 .. l.count |-> InboxFrees(l.items[i], "inboxes", i)])
          \o << Ptr("inboxes", 0, "inboxes") >>
     ELSE << >>)
    \o (IF l.next_cursor # "NULL" THEN << Ptr("inboxes", 0, "next_cursor") >>
        ELSE << >>)

\* the pointers agentmail_message_list_free(l) frees
MessageListFrees(l) ==
    (IF l.arr # "NULL"
     THEN Flatten([i \in 1 .. l.count |-> MessageFrees(l.items[i], "messages", i)])
          \o << Ptr("messages", 0, "messages") >>
     ELSE << >>)
    \o (IF l.next_cursor # "NULL" THEN << Ptr("messages", 0, "next_cursor") >>
        ELSE << >>)

\* a free operation was called: its name, whether its argument was NULL,
\* the pointers it handed to free()
Called(name, is_null, ptrs) ==
    released' = [calls |-> Append(released.calls, [op |-> name, null |-> is_null]),
                 ptrs  |-> released.ptrs \o ptrs]

\* the caller frees records only after the call that filled them returned
\* something other than AGENTMAIL_ERR_INVALID_ARG
CanFree(o) ==
    /\ pc = "done"
    /\ op = o
    /\ ret # "AGENTMAIL_ERR_INVALID_ARG"
    /\ Len(released.calls) < MaxFrees

FreeFrame ==
    /\ UNCHANGED <<pc, op, args, client, respBuf, ret, httpRequests, res_json,
                   outWritten, failedAt, raw_content, raw_size, url, log, reqs,
                   app>>
    /\ UNCHANGED cfgVars
    /\ UNCHANGED <<err, status_code, result>>
    /\ UNCHANGED accVars

\* agentmail_inbox_free without its memset
InboxFree_noMemset(is_null) ==
    /\ CanFree("inbox_get") \/ CanFree("inbox_create")
    /\ IF is_null
       THEN Called("inbox_free", TRUE, << >>)
       ELSE Called("inbox_free", FALSE, InboxFrees(inbox, "inbox", 0))
    /\ UNCHANGED <<inbox, inboxes, message, messages>>
    /\ FreeFrame

\* agentmail_inbox_free(&inbox), or agentmail_inbox_free(NULL)
InboxFree(is_null) ==
    /\ CanFree("inbox_get") \/ CanFree("inbox_create")
    /\ IF is_null
       THEN /\ Called("inbox_free", TRUE, << >>)
            /\ UNCHANGED inbox
       ELSE /\ Called("inbox_free", FALSE, InboxFrees(inbox, "inbox", 0))
            /\ inbox' = ZeroInbox
    /\ UNCHANGED <<inboxes, message, messages>>
    /\ FreeFrame

\* agentmail_inbox_list_free(&inboxes), or with NULL
InboxListFree(is_null) ==
    /\ CanFree("inbox_list")
    /\ IF is_null
       THEN /\ Called("inbox_list_free", TRUE, << >>)
            /\ UNCHANGED inboxes
       ELSE /\ Called("inbox_list_free", FALSE, InboxListFrees(inboxes))
            /\ inboxes' = ZeroInboxList
    /\ UNCHANGED <<inbox, message, messages>>
    /\ FreeFrame

\* agentmail_message_free(&message), or with NULL
MessageFree(is_null) ==
    /\ CanFree("message_get")
    /\ IF is_null
       THEN /\ Called("message_free", TRUE, << >>)
            /\ UNCHANGED message
       ELSE /\ Called("message_free", FALSE, MessageFrees(message, "message", 0))
            /\ message' = ZeroMessage
    /\ UNCHANGED <<inbox, inboxes, messages>>
    /\ FreeFrame

\* agentmail_message_list_free(&messages), or with NULL
MessageListFree(is_null) ==
    /\ CanFree("messages_get")
    /\ IF is_null
       THEN /\ Called("message_list_free", TRUE, << >>)
            /\ UNCHANGED messages
       ELSE /\ Called("message_list_free", FALSE, MessageListFrees(messages))
            /\ messages' = ZeroMessageList
    /\ UNCHANGED <<inbox, inboxes, message>>
    /\ FreeFrame

\* the caller stores an array of one attachment URL in the message it got
CallerAttaches ==
    /\ pc = "done"
    /\ op = "message_get"
    /\ ret = "AGENTMAIL_ERR_NONE"
    /\ released = NoReleased
    /\ message.attachments = "NULL"
    /\ message' = [message EXCEPT !.attachments = "owned", !.attachment_count = 1]
    /\ UNCHANGED <<inbox, inboxes, messages, released>>
    /\ FreeFrame

-----------------------------------------------------------------------------
(* Two requests at a time: every request has its own http_response_t, url,  *)
(* status_code and output record on the stack of the task that called it,   *)
(* and its own esp_http_client session whose user_data is that response     *)

\* between two calls the caller overwrites its agentmail_config_t and the
\* strings it points to
CallerSetsConfig(cfg) ==
    /\ pc = "idle"
    /\ cfg # callerCfg
    /\ callerCfg' = cfg
    /\ UNCHANGED <<pc, op, args, client, respBuf, ret, httpRequests, inbox,
                   outWritten, failedAt, initCfg>>
    /\ UNCHANGED <<recVars, url, log, sideVars>>
    /\ UNCHANGED callVars
    /\ UNCHANGED accVars

\* the lengths of the operation specification
TheShortLens == CHOOSE l \in ShortLens : TRUE

\* the responses tried by the operation specification for each operation
SpecTrees(o) ==
    CASE o \in {"inbox_create", "inbox_get"} -> SmallTrees
      [] o = "inbox_list" ->
           { ListObject("inboxes",
                        ArrayItem(<< [t |-> "object", m |-> FullMembers] >>),
                        Str("c2"), Absent),
             ArrayTree }
      [] o = "messages_get" ->
           { ListObject("messages",
                        ArrayItem(<< MessageTree(Str("m1"), Absent, Absent,
                                                 [t |-> "false", v |-> ""], FALSE) >>),
                        Str("c2"), Absent),
             ArrayTree }
      [] o = "message_get" ->
           { MessageTree(Str("m1"), Str("Hello"), Absent, [t |-> "true", v |-> ""], TRUE),
             ArrayTree }
      [] OTHER -> {}

Tasks == {1, 2}

\* most events delivered to one request of the two-request specifications
MaxConcEvents == 2

\* the operations the two tasks call
ConcOps == {"messages_get", "message_get_raw", "inbox_delete"}

\* a task outside any call
IdleReq ==
    [pc |-> "idle", op |-> "none", user_data |-> 0, buffer |-> << >>, size |-> 0,
     capacity |-> 0, stream |-> 0, events |-> 0, status_code |-> 0,
     result |-> "AGENTMAIL_ERR_NONE", ret |-> "AGENTMAIL_ERR_NONE",
     log |-> << >>, url |-> NoUrl, parsed |-> << >>, out |-> "?"]

\* a handler registration that hands every session the response of task 1
UserData_shared(p) == 1

\* http_config.user_data = response: the response of the calling task
UserData(p) == p

\* the output record of operation o after its memset
ZeroRecord(o) ==
    CASE o \in {"inbox_create", "inbox_get"} -> ZeroInbox
      [] o = "inbox_list"   -> ZeroInboxList
      [] o = "messages_get" -> ZeroMessageList
      [] o = "message_get"  -> ZeroMessage
      [] OTHER              -> "?"

\* task p calls operation o with valid arguments through client c: the state
\* when esp_http_client_perform starts
ReqStart(c, o, p) ==
    [pc |-> "perform", op |-> o, user_data |-> UserData(p), buffer |-> << >>,
     size |-> 0, capacity |-> INITIAL_CAPACITY, stream |-> 0, events |-> 0,
     status_code |-> 0, result |-> "AGENTMAIL_ERR_NONE",
     ret |-> "AGENTMAIL_ERR_NONE", log |-> RequestLog(c, o),
     url |-> BuildUrl(c, o, Required(o), TheShortLens), parsed |-> << >>,
     out |-> ZeroRecord(o)]

\* http_event_handler on response r for len bytes, numbered from, of the
\* session of task src
Accumulate(r, src, from, len, chunked, realloc_ok) ==
    IF SkipsChunk(chunked) THEN r
    ELSE LET new_size == NewSize(r.size, len)
             d == GrowDecision(new_size, r.capacity, realloc_ok)
         IN  IF d \in {"drop", "nomem"} THEN r
             ELSE [r EXCEPT !.capacity = IF d = "grow" THEN NewCapacity(new_size)
                                         ELSE @,
                            !.buffer = Append(@, [src |-> src, from |-> from,
                                                  len |-> len]),
                            !.size = new_size]

\* an ON_DATA event of the session of task p: the handler writes to the
\* response its user_data points to
ReqOnData(rs, p, len, chunked, realloc_ok) ==
    LET t   == rs[p].user_data
        rs1 == [rs EXCEPT ![p].stream = @ + len, ![p].events = @ + 1]
    IN  IF rs1[t].pc = "perform"
        THEN [rs1 EXCEPT ![t] = Accumulate(rs1[t], p, rs[p].stream, len,
                                           chunked, realloc_ok)]
        ELSE rs1

\* a request helper that reads the status code only inside its logging branch
ReqPerformReturn_statusWhenLogging(r, c, e, sc) ==
    LET seen == IF c.enable_logging THEN sc ELSE 0
    IN  [r EXCEPT !.pc = "performed", !.status_code = seen,
                  !.result = PerformResult(e, seen),
                  !.log = @ \o ResponseLog(c, e, r.size)]

\* perform_http_request from the return of esp_http_client_perform on
ReqPerformReturn(r, c, e, sc) ==
    [r EXCEPT !.pc = "performed", !.status_code = sc,
              !.result = PerformResult(e, sc),
              !.log = @ \o ResponseLog(c, e, r.size)]

\* the record operation o decodes from tree
DecodeRecord(o, tree, calloc_ok) ==
    CASE o \in {"inbox_create", "inbox_get"} -> DecodeInbox(tree)
      [] o = "inbox_list"   -> DecodeInboxList(tree, calloc_ok)
      [] o = "messages_get" -> DecodeMessageList(tree, calloc_ok)
      [] o = "message_get"  -> DecodeMessage(tree)

\* the operation after perform_http_request returned: free or hand over the
\* buffer, parse it, fill the output; parsed records whose bytes were parsed
ReqFinish(r, tree, calloc_ok) ==
    IF r.result # "AGENTMAIL_ERR_NONE" \/ r.op \in StatusOnlyOps
    THEN [r EXCEPT !.pc = "done", !.ret = r.result]
    ELSE IF r.op = "message_get_raw"
    THEN [r EXCEPT !.pc = "done", !.ret = r.result,
                   !.out = [content |-> r.buffer, size |-> r.size]]
    ELSE IF tree = NullTree
    THEN [r EXCEPT !.pc = "done", !.ret = "AGENTMAIL_ERR_PARSE",
                   !.parsed = r.buffer]
    ELSE [r EXCEPT !.pc = "done", !.ret = "AGENTMAIL_ERR_NONE",
                   !.parsed = r.buffer,
                   !.out = DecodeRecord(r.op, tree, calloc_ok)]

\* everything but reqs
soloVars == <<pc, op, args, client, buffer, size, capacity, respBuf, termAt, oob,
              stream, events, sawChunked, reallocFailed, dropped, err,
              status_code, result, ret, httpRequests, res_json, inbox,
              outWritten, failedAt, inboxes, message, messages, raw_content,
              raw_size, url, log, released, callerCfg, initCfg, app>>

\* task p calls a request operation
ConcStart(p, o) ==
    /\ client.live
    /\ reqs[p].pc = "idle"
    /\ reqs' = [reqs EXCEPT ![p] = ReqStart(client, o, p)]
    /\ UNCHANGED soloVars

\* the transport delivers data to the handler in the session of task p
ConcOnData(p, len, chunked, realloc_ok) ==
    /\ reqs[p].pc = "perform"
    /\ reqs[p].events < MaxConcEvents
    /\ reqs' = ReqOnData(reqs, p, len, chunked, realloc_ok)
    /\ UNCHANGED soloVars

\* esp_http_client_perform returns in task p
ConcPerformReturn(p, e, sc) ==
    /\ reqs[p].pc = "perform"
    /\ reqs' = [reqs EXCEPT ![p] = ReqPerformReturn(reqs[p], client, e, sc)]
    /\ UNCHANGED soloVars

\* the operation of task p decodes and returns
ConcFinish(p, tree, calloc_ok) ==
    /\ reqs[p].pc = "performed"
    /\ tree \in ParseOutcomes(reqs[p].size, SpecTrees(reqs[p].op))
    /\ ~calloc_ok => (reqs[p].result = "AGENTMAIL_ERR_NONE"
                      /\ CallsCalloc(reqs[p].op, tree))
    /\ reqs' = [reqs EXCEPT ![p] = ReqFinish(reqs[p], tree, calloc_ok)]
    /\ UNCHANGED soloVars

\* task p goes on to its next call
ConcReturn(p) ==
    /\ reqs[p].pc = "done"
    /\ reqs' = [reqs EXCEPT ![p] = IdleReq]
    /\ UNCHANGED soloVars

\* the client of task p in the logging comparison: task 2 uses a client that
\* differs from the one of task 1 in enable_logging only
TwinClient(p) ==
    IF p = 1 THEN client ELSE [client EXCEPT !.enable_logging = ~@]

\* the same call in both tasks
TwinStart(o) ==
    /\ client.live
    /\ \A p \in Tasks : reqs[p].pc = "idle"
    /\ reqs' = [p \in Tasks |-> ReqStart(TwinClient(p), o, p)]
    /\ UNCHANGED soloVars

\* the same event in both sessions
TwinOnData(len, chunked, realloc_ok) ==
    /\ \A p \in Tasks : reqs[p].pc = "perform" /\ reqs[p].events < MaxConcEvents
    /\ reqs' = ReqOnData(ReqOnData(reqs, 1, len, chunked, realloc_ok),
                         2, len, chunked, realloc_ok)
    /\ UNCHANGED soloVars

\* the same transport result and status code in both tasks
TwinPerformReturn(e, sc) ==
    /\ \A p \in Tasks : reqs[p].pc = "perform"
    /\ reqs' = [p \in Tasks |-> ReqPerformReturn(reqs[p], TwinClient(p), e, sc)]
    /\ UNCHANGED soloVars

\* the same parse outcome in both tasks
TwinFinish(tree, calloc_ok) ==
    /\ \A p \in Tasks : reqs[p].pc = "performed"
    /\ \A p \in Tasks :
          /\ tree \in ParseOutcomes(reqs[p].size, SpecTrees(reqs[p].op))
          /\ ~calloc_ok => (reqs[p].result = "AGENTMAIL_ERR_NONE"
                            /\ CallsCalloc(reqs[p].op, tree))
    /\ reqs' = [p \in Tasks |-> ReqFinish(reqs[p], tree, calloc_ok)]
    /\ UNCHANGED soloVars

\* both tasks go on to the next call
TwinReturn ==
    /\ \A p \in Tasks : reqs[p].pc = "done"
    /\ reqs' = [p \in Tasks |-> IdleReq]
    /\ UNCHANGED soloVars

-----------------------------------------------------------------------------
(* AgentMailManager (agentmail_example.h): client_, inbox_id_ and the calls  *)
(* of the library it makes                                                   *)

\* most library calls of one manager in the manager specification
MaxMgrCalls == 5

\* AgentMailManager() : client_(nullptr), inbox_id_("")
NoManager ==
    [client_ |-> "NULL", inbox_id_ |-> "", calls |-> << >>, last |-> "none",
     ret |-> "", count |-> 0]

\* no application running
NoApp ==
    [mode |-> "none", display |-> FALSE, ssid |-> FALSE, api_key |-> "",
     pc |-> "off", wifi |-> FALSE, screen_ |-> FALSE, inbox_id |-> "",
     errors |-> 0, messages_sent |-> 0, messages_received |-> 0,
     check_count |-> 0, checkTask |-> FALSE, uiTask |-> FALSE,
     noTask |-> FALSE, mgr |-> NoManager]

\* errors of the library calls the manager makes
MgrErrs ==
    {"AGENTMAIL_ERR_NO_MEM", "AGENTMAIL_ERR_NETWORK", "AGENTMAIL_ERR_PARSE"}

\* the inbox_id member of a create-inbox response
MgrIdItems ==
    {Absent, Str(""), Str("a@x.to"), Str("b@x.to"), [t |-> "number", v |-> "7"]}

\* what agentmail_inbox_create gives for a valid handle: an error and the
\* zeroed record, or success and the decoded record
InboxCreateOutcomes ==
    { [err |-> e, inbox |-> ZeroInbox] : e \in MgrErrs } \cup
    { [err |-> "AGENTMAIL_ERR_NONE",
       inbox |-> DecodeInbox(ObjectTree(a, Absent, Absent, Absent, Absent))] :
        a \in MgrIdItems }

\* what agentmail_messages_get gives for valid arguments: an error, or
\* success and a list of count messages
MessagesGetOutcomes ==
    { [err |-> e, count |-> 0] : e \in MgrErrs } \cup
    { [err |-> "AGENTMAIL_ERR_NONE", count |-> k] : k \in 0 .. MaxItems }

\* the error a request operation returns for handle h when the request
\* itself would give e
WithHandle(h, e) == IF h = "NULL" THEN "AGENTMAIL_ERR_INVALID_ARG" ELSE e

\* the manager calls library function fn, which returns e
MgrCall(m, fn, e) ==
    [m EXCEPT !.calls = Append(@, [fn |-> fn, inbox_id |-> m.inbox_id_,
                                   handle |-> m.client_, err |-> e])]

\* Initialize(api_key); e: what agentmail_init returns
Initialize(m, api_key, e) ==
    IF api_key = ""
    THEN [m EXCEPT !.last = "Initialize", !.ret = "false"]
    ELSE LET m1 == MgrCall(m, "init", e)
         IN  IF e # "AGENTMAIL_ERR_NONE"
             THEN [m1 EXCEPT !.last = "Initialize", !.ret = "false"]
             ELSE [m1 EXCEPT !.last = "Initialize", !.ret = "true",
                             !.client_ = "handle"]

\* a GetOrCreateInbox that creates an inbox on every call
GetOrCreateInbox_always(m, out) ==
    LET e  == WithHandle(m.client_, out.err)
        in == IF m.client_ = "NULL" THEN ZeroInbox ELSE out.inbox
        m1 == MgrCall(m, "inbox_create", e)
    IN  IF e = "AGENTMAIL_ERR_NONE" /\ in.inbox_id # "NULL"
        THEN [m1 EXCEPT !.last = "GetOrCreateInbox", !.inbox_id_ = in.inbox_id,
                        !.ret = in.inbox_id]
        ELSE [m1 EXCEPT !.last = "GetOrCreateInbox", !.ret = ""]

\* GetOrCreateInbox(device_name); out: what agentmail_inbox_create gives
GetOrCreateInbox(m, out) ==
    IF m.inbox_id_ # ""
    THEN [m EXCEPT !.last = "GetOrCreateInbox", !.ret = m.inbox_id_]
    ELSE LET e  == WithHandle(m.client_, out.err)
             in == IF m.client_ = "NULL" THEN ZeroInbox ELSE out.inbox
             m1 == MgrCall(m, "inbox_create", e)
         IN  IF e = "AGENTMAIL_ERR_NONE" /\ in.inbox_id # "NULL"
             THEN [m1 EXCEPT !.last = "GetOrCreateInbox",
                             !.inbox_id_ = in.inbox_id, !.ret = in.inbox_id]
             ELSE [m1 EXCEPT !.last = "GetOrCreateInbox", !.ret = ""]

\* a SendMessage without the test of inbox_id_
SendMessage_ungated(m, e0) ==
    LET e == WithHandle(m.client_, e0)
    IN  [MgrCall(m, "send", e) EXCEPT
            !.last = "SendMessage",
            !.ret = IF e = "AGENTMAIL_ERR_NONE" THEN "true" ELSE "false"]

\* SendMessage(to, subject, body); e0: what agentmail_send gives
SendMessage(m, e0) ==
    IF m.inbox_id_ = ""
    THEN [m EXCEPT !.last = "SendMessage", !.ret = "false"]
    ELSE LET e == WithHandle(m.client_, e0)
         IN  [MgrCall(m, "send", e) EXCEPT
                 !.last = "SendMessage",
                 !.ret = IF e = "AGENTMAIL_ERR_NONE" THEN "true" ELSE "false"]

\* the agentmail_message_mark_read calls of CheckMessages, one per message;
\* their results are not looked at
RECURSIVE MarkRead(_, _)
MarkRead(m, k) ==
    IF k = 0 THEN m ELSE MarkRead(MgrCall(m, "message_mark_read", "ignored"), k - 1)

\* CheckMessages(callback); out: what agentmail_messages_get gives
CheckMessages(m, out) ==
    IF m.inbox_id_ = ""
    THEN [m EXCEPT !.last = "CheckMessages", !.count = 0]
    ELSE LET e  == WithHandle(m.client_, out.err)
             m1 == MgrCall(m, "messages_get", e)
         IN  IF e # "AGENTMAIL_ERR_NONE"
             THEN [m1 EXCEPT !.last = "CheckMessages", !.count = 0]
             ELSE [MarkRead(m1, out.count) EXCEPT !.last = "CheckMessages",
                                                  !.count = out.count]

\* everything but app
libVars == <<pc, op, args, client, buffer, size, capacity, respBuf, termAt, oob,
             stream, events, sawChunked, reallocFailed, dropped, err,
             status_code, result, ret, httpRequests, res_json, inbox,
             outWritten, failedAt, inboxes, message, messages, raw_content,
             raw_size, url, log, released, reqs, callerCfg, initCfg>>

\* the application calls a method of its manager
MgrStep(m) ==
    /\ app.mode = "manager"
    /\ Len(app.mgr.calls) < MaxMgrCalls
    /\ app' = [app EXCEPT !.mgr = m]
    /\ UNCHANGED libVars

MgrInitialize(api_key, e) == MgrStep(Initialize(app.mgr, api_key, e))

MgrGetOrCreateInbox(out) == MgrStep(GetOrCreateInbox(app.mgr, out))

MgrSendMessage(e) == MgrStep(SendMessage(app.mgr, e))

MgrCheckMessages(out) == MgrStep(CheckMessages(app.mgr, out))

-----------------------------------------------------------------------------
(* The test modes: start_agentmail_test (agentmail_test.cc) and              *)
(* start_agentmail_ui_test (agentmail_ui_test.cc). app.pc is the position of *)
(* the main task; "restart" is the delay that ends in esp_restart().         *)

\* most polls of the check task between two restarts
MaxChecks == 2

\* the device as it comes up: the build's mode and API key, the board's
\* display and the stored WiFi credentials stay, everything else is reset
Booted(a) ==
    [NoApp EXCEPT !.mode = a.mode, !.display = a.display, !.ssid = a.ssid,
                  !.api_key = a.api_key, !.pc = "boot"]

\* the main task of a test mode takes the step at position at
TestStep(at, a) ==
    /\ app.mode \in {"console", "ui"}
    /\ app.pc = at
    /\ app' = a
    /\ UNCHANGED libVars

\* ssid_list.empty(): no credentials, restart
TestCheckSsid ==
    TestStep("boot", [app EXCEPT !.pc = IF app.ssid THEN "wifi" ELSE "restart"])

\* wifi_station.WaitForConnected(60 * 1000)
TestWaitWifi(connected) ==
    TestStep("wifi",
        IF ~connected
        THEN [app EXCEPT !.pc = "restart"]
        ELSE [app EXCEPT !.wifi = TRUE,
                         !.pc = IF app.mode = "ui" THEN "display" ELSE "api_key"])

\* UI mode: board.GetDisplay() is null, restart
UiCheckDisplay ==
    /\ app.mode = "ui"
    /\ TestStep("display",
          [app EXCEPT !.pc = IF app.display THEN "create_ui" ELSE "restart"])

\* UI mode: create_ui(); ok: lv_obj_create gave a screen
UiCreateUi(ok) ==
    /\ app.mode = "ui"
    /\ TestStep("create_ui",
          IF ok THEN [app EXCEPT !.screen_ = TRUE, !.pc = "api_key"]
                ELSE [app EXCEPT !.pc = "restart"])

\* api_key.empty(): restart; only the UI mode counts it as an error
TestCheckApiKey ==
    TestStep("api_key",
        IF app.api_key # ""
        THEN [app EXCEPT !.pc = "initialize"]
        ELSE [app EXCEPT !.pc = "restart",
                         !.errors = IF app.mode = "ui" THEN @ + 1 ELSE @])

\* Initialize(api_key) of a new manager; e: what agentmail_init returns
TestInitialize(e) ==
    LET m == Initialize(app.mgr, app.api_key, e)
    IN  TestStep("initialize",
            IF m.ret = "false"
            THEN [app EXCEPT !.mgr = m, !.errors = @ + 1, !.pc = "restart"]
            ELSE [app EXCEPT !.mgr = m, !.pc = "inbox"])

\* GetOrCreateInbox(device_name); out: what agentmail_inbox_create gives
TestInbox(out) ==
    LET m == GetOrCreateInbox(app.mgr, out)
    IN  TestStep("inbox",
            IF m.ret = ""
            THEN [app EXCEPT !.mgr = m, !.errors = @ + 1, !.pc = "restart"]
            ELSE [app EXCEPT !.mgr = m, !.inbox_id = m.ret, !.pc = "send"])

\* a test send whose failure restarts the device
TestSend_restarts(e) ==
    LET m == SendMessage(app.mgr, e)
    IN  TestStep("send",
            IF m.ret = "true"
            THEN [app EXCEPT !.mgr = m, !.messages_sent = @ + 1,
                             !.pc = "start_tasks"]
            ELSE [app EXCEPT !.mgr = m, !.errors = @ + 1, !.pc = "restart"])

\* SendMessage(recipient, subject, body); e: what agentmail_send gives
TestSend(e) ==
    LET m == SendMessage(app.mgr, e)
    IN  TestStep("send",
            IF m.ret = "true"
            THEN [app EXCEPT !.mgr = m, !.messages_sent = @ + 1,
                             !.pc = "start_tasks"]
            ELSE [app EXCEPT !.mgr = m, !.errors = @ + 1,
                             !.pc = "start_tasks"])

\* xTaskCreate of the check task (and, before it, of the UI update task in
\* UI mode); uiOk, checkOk: the task was created. The results are not looked
\* at: the main task goes on to its loop either way. noTask records a check
\* task that could not be created.
TestStartTasks(uiOk, checkOk) ==
    TestStep("start_tasks",
        [app EXCEPT !.checkTask = checkOk, !.noTask = ~checkOk,
                    !.uiTask = (app.mode = "ui" /\ uiOk),
                    !.pc = "running"])

\* one round of the check task; out: what agentmail_messages_get gives
CheckTaskPoll(out) ==
    LET m == CheckMessages(app.mgr, out)
    IN  /\ app.checkTask
        /\ app.check_count < MaxChecks
        /\ app' = [app EXCEPT !.mgr = m, !.check_count = @ + 1,
                              !.messages_received = @ + m.count]
        /\ UNCHANGED libVars

\* esp_restart(): the device comes up again
TestRestart == TestStep("restart", Booted(app))

-----------------------------------------------------------------------------
(* Specifications *)

\* no request of a second task
NoReqs == << >>

\* the caller's output records and the side state outside any call
RestIdle ==
    /\ inboxes = GarbageInboxList
    /\ message = GarbageMessage
    /\ messages = GarbageMessageList
    /\ raw_content = "?"
    /\ raw_size = -1
    /\ url = NoUrl
    /\ log = << >>
    /\ released = NoReleased
    /\ reqs = NoReqs
    /\ app = NoApp

\* the same while a request of operation op is running or has run
RestInCall(resp) ==
    /\ callerCfg \in Configs
    /\ initCfg = callerCfg
    /\ client = NewClient(initCfg)
    /\ inboxes = IF op = "inbox_list" THEN ZeroInboxList ELSE GarbageInboxList
    /\ message = IF op = "message_get" THEN ZeroMessage ELSE GarbageMessage
    /\ messages = IF op = "messages_get" THEN ZeroMessageList ELSE GarbageMessageList
    /\ raw_content = "?"
    /\ raw_size = -1
    /\ url = BuildUrl(client, op, args, TheShortLens)
    /\ log = RequestLog(client, op) \o resp
    /\ released = NoReleased
    /\ reqs = NoReqs
    /\ app = NoApp

\* no client, no call in progress
Init ==
    /\ pc = "idle"
    /\ op = "none"
    /\ args = {}
    /\ client = NoClient
    /\ buffer = << >>
    /\ size = 0
    /\ capacity = 0
    /\ respBuf = "none"
    /\ termAt = 0
    /\ oob = FALSE
    /\ stream = 0
    /\ events = 0
    /\ sawChunked = FALSE
    /\ reallocFailed = FALSE
    /\ dropped = FALSE
    /\ err = "ESP_OK"
    /\ status_code = 0
    /\ result = "AGENTMAIL_ERR_NONE"
    /\ ret = "AGENTMAIL_ERR_NONE"
    /\ httpRequests = 0
    /\ res_json = NullTree
    /\ inbox = GarbageInbox
    /\ outWritten = FALSE
    /\ failedAt = "none"
    /\ RestIdle
    /\ callerCfg \in Configs
    /\ initCfg = NoConfig

Next ==
    \/ \E nn \in ArgSets("init"), cfg \in Configs, ok \in BOOLEAN :
          AgentmailInit(nn, cfg, ok)
    \/ \E nn \in ArgSets("destroy") : AgentmailDestroy(nn)
    \/ \E o \in RequestOps : \E nn \in ArgSets(o) : CallInvalid(o, nn)
    \/ \E o \in RequestOps : \E nn \in ArgSets(o) :
          \E fail \in FailPoints(o) : CallFail(o, nn, TheShortLens, fail)
    \/ \E o \in RequestOps : \E nn \in ArgSets(o) :
          CallPerform(o, nn, TheShortLens)
    \/ \E len \in ReqLens, chunked \in BOOLEAN, ok \in BOOLEAN :
          OnData(len, chunked, ok, MaxReqEvents)
    \/ OnOtherEvent(MaxReqEvents)
    \/ \E e \in EspErrs, sc \in StatusCodes : PerformReturn(e, sc)
    \/ FinishStatusOnly
    \/ FinishDecodeError
    \/ \E tree \in ParseOutcomes(size, SpecTrees(op)), ok \in BOOLEAN :
          FinishDecode(tree, ok)
    \/ \E tree \in ParseOutcomes(size, SendTrees) : FinishSend(tree)
    \/ FinishGetRaw
    \/ Return

Spec == Init /\ [][Next]_vars

\* the accumulator of one request: the state perform_http_request leaves
\* when it calls esp_http_client_perform, then the events of that request
InitAcc ==
    /\ pc = "perform"
    /\ op = "message_get_raw"
    /\ args = PointerArgs("message_get_raw")
    /\ RestInCall(<< >>)
    /\ buffer = << >>
    /\ size = 0
    /\ capacity = INITIAL_CAPACITY
    /\ respBuf = "live"
    /\ termAt = 0
    /\ oob = FALSE
    /\ stream = 0
    /\ events = 0
    /\ sawChunked = FALSE
    /\ reallocFailed = FALSE
    /\ dropped = FALSE
    /\ err = "ESP_OK"
    /\ status_code = 0
    /\ result = "AGENTMAIL_ERR_NONE"
    /\ ret = "AGENTMAIL_ERR_NONE"
    /\ httpRequests = 1
    /\ res_json = NullTree
    /\ inbox = GarbageInbox
    /\ outWritten = FALSE
    /\ failedAt = "none"

NextAcc ==
    \/ \E len \in AccLens, chunked \in BOOLEAN, ok \in BOOLEAN :
          OnData(len, chunked, ok, MaxEvents)
    \/ OnOtherEvent(MaxEvents)

SpecAcc == InitAcc /\ [][NextAcc]_vars

\* a request whose response is chunked-encoded: every data event of it is
\* delivered with esp_http_client_is_chunked_response true; then the helper
\* and agentmail_message_get_raw return
NextChunked ==
    \/ \E len \in AccLens, ok \in BOOLEAN : OnData(len, TRUE, ok, MaxEvents)
    \/ OnOtherEvent(MaxEvents)
    \/ \E e \in EspErrs, sc \in {200, 404} : PerformReturn(e, sc)
    \/ FinishGetRaw

SpecChunked == InitAcc /\ [][NextChunked]_vars

\* the request helper from the call of esp_http_client_perform to its return,
\* for every transport result and every status code
NextPerform ==
    \E e \in EspErrs, sc \in AllStatusCodes : PerformReturn(e, sc)

SpecPerform == InitAcc /\ [][NextPerform]_vars

\* the decoding of one 2xx response of inbox_create or inbox_get, for every
\* tree in Trees
InitDecode ==
    /\ pc = "performed"
    /\ op \in {"inbox_create", "inbox_get"}
    /\ args = Required(op)
    /\ RestInCall(ResponseLog(client, "ESP_OK", 100))
    /\ buffer = Whole(100)
    /\ size = 100
    /\ capacity = INITIAL_CAPACITY
    /\ respBuf = "live"
    /\ termAt = 100
    /\ oob = FALSE
    /\ stream = 100
    /\ events = 1
    /\ sawChunked = FALSE
    /\ reallocFailed = FALSE
    /\ dropped = FALSE
    /\ err = "ESP_OK"
    /\ status_code \in {sc \in StatusCodes : StatusResult(sc) = "AGENTMAIL_ERR_NONE"}
    /\ result = "AGENTMAIL_ERR_NONE"
    /\ ret = "AGENTMAIL_ERR_NONE"
    /\ httpRequests = 1
    /\ res_json = NullTree
    /\ inbox = ZeroInbox
    /\ outWritten = TRUE
    /\ failedAt = "none"

NextDecode ==
    \E tree \in ParseOutcomes(size, Trees) : FinishDecode(tree, TRUE)

SpecDecode == InitDecode /\ [][NextDecode]_vars

\* the operations that decode a list
ListOps == {"inbox_list", "messages_get"}

\* the elements tried in the arrays of each list operation
ElemsFor(o) == IF o = "inbox_list" THEN InboxElems ELSE MsgElems

\* the decoding of one 2xx response of inbox_list or messages_get, for every
\* list response of at most MaxItems elements, calloc succeeding or not
InitList ==
    /\ pc = "performed"
    /\ op \in ListOps
    /\ args = Required(op)
    /\ RestInCall(ResponseLog(client, "ESP_OK", 100))
    /\ buffer = Whole(100)
    /\ size = 100
    /\ capacity = INITIAL_CAPACITY
    /\ respBuf = "live"
    /\ termAt = 100
    /\ oob = FALSE
    /\ stream = 100
    /\ events = 1
    /\ sawChunked = FALSE
    /\ reallocFailed = FALSE
    /\ dropped = FALSE
    /\ err = "ESP_OK"
    /\ status_code = 200
    /\ result = "AGENTMAIL_ERR_NONE"
    /\ ret = "AGENTMAIL_ERR_NONE"
    /\ httpRequests = 1
    /\ res_json = NullTree
    /\ inbox = GarbageInbox
    /\ outWritten = TRUE
    /\ failedAt = "none"

NextList ==
    \E tree \in ParseOutcomes(size, ListTrees(ListField(op), ElemsFor(op))),
       ok \in BOOLEAN :
        FinishDecode(tree, ok)

SpecList == InitList /\ [][NextList]_vars

\* the configurations of the URL specification: one more, with a long base URL
UrlConfigs ==
    Configs \cup
    { [api_key |-> "key", base_url |-> LongBaseUrl, timeout_ms |-> 0,
       enable_logging |-> FALSE, ctx |-> "NULL"] }

\* an initialised client and no call in progress; then one request operation
\* up to esp_http_client_perform, for every string length in UrlLens
InitUrl ==
    /\ pc = "idle"
    /\ op = "none"
    /\ args = {}
    /\ callerCfg \in UrlConfigs
    /\ initCfg = callerCfg
    /\ client = NewClient(initCfg)
    /\ buffer = << >>
    /\ size = 0
    /\ capacity = 0
    /\ respBuf = "none"
    /\ termAt = 0
    /\ oob = FALSE
    /\ stream = 0
    /\ events = 0
    /\ sawChunked = FALSE
    /\ reallocFailed = FALSE
    /\ dropped = FALSE
    /\ err = "ESP_OK"
    /\ status_code = 0
    /\ result = "AGENTMAIL_ERR_NONE"
    /\ ret = "AGENTMAIL_ERR_NONE"
    /\ httpRequests = 0
    /\ res_json = NullTree
    /\ inbox = GarbageInbox
    /\ outWritten = FALSE
    /\ failedAt = "none"
    /\ RestIdle

NextUrl ==
    \E o \in RequestOps : \E nn \in ArgSets(o) : \E lens \in UrlLens :
        CallPerform(o, nn, lens)

SpecUrl == InitUrl /\ [][NextUrl]_vars

\* agentmail_config_t values of the configuration specification: the third
\* is what the caller overwrites its config with after agentmail_init
CallerConfigs ==
    Configs \cup
    { [api_key |-> "other-key", base_url |-> LongBaseUrl, timeout_ms |-> 1,
       enable_logging |-> TRUE, ctx |-> "display"] }

\* the operations of the configuration specification
ConfigOps == {"inbox_get", "inbox_delete", "send", "message_get_raw"}

\* every public operation between changes of the caller's config
NextConfig ==
    \/ \E nn \in ArgSets("init"), cfg \in CallerConfigs, ok \in BOOLEAN :
          AgentmailInit(nn, cfg, ok)
    \/ \E nn \in ArgSets("destroy") : AgentmailDestroy(nn)
    \/ \E cfg \in CallerConfigs : CallerSetsConfig(cfg)
    \/ \E o \in ConfigOps : \E nn \in ArgSets(o) : CallInvalid(o, nn)
    \/ \E o \in ConfigOps : \E fail \in FailPoints(o) :
          CallFail(o, PointerArgs(o), TheShortLens, fail)
    \/ \E o \in ConfigOps : CallPerform(o, PointerArgs(o), TheShortLens)
    \/ \E ok \in BOOLEAN : OnData(5000, FALSE, ok, MaxReqEvents)
    \/ OnOtherEvent(MaxReqEvents)
    \/ \E e \in {"ESP_OK", "ESP_FAIL"}, sc \in {200, 404} : PerformReturn(e, sc)
    \/ FinishStatusOnly
    \/ FinishDecodeError
    \/ \E tree \in ParseOutcomes(size, SpecTrees(op)) : FinishDecode(tree, TRUE)
    \/ \E tree \in ParseOutcomes(size, SendTrees) : FinishSend(tree)
    \/ FinishGetRaw
    \/ Return

SpecConfig == Init /\ [][NextConfig]_vars

\* the configuration of the two-task specifications: logging on
ConcConfig == CHOOSE cfg \in Configs : cfg.enable_logging

\* an initialised client shared by two tasks, neither in a call
InitConc ==
    /\ pc = "idle"
    /\ op = "none"
    /\ args = {}
    /\ callerCfg = ConcConfig
    /\ initCfg = callerCfg
    /\ client = NewClient(initCfg)
    /\ buffer = << >>
    /\ size = 0
    /\ capacity = 0
    /\ respBuf = "none"
    /\ termAt = 0
    /\ oob = FALSE
    /\ stream = 0
    /\ events = 0
    /\ sawChunked = FALSE
    /\ reallocFailed = FALSE
    /\ dropped = FALSE
    /\ err = "ESP_OK"
    /\ status_code = 0
    /\ result = "AGENTMAIL_ERR_NONE"
    /\ ret = "AGENTMAIL_ERR_NONE"
    /\ httpRequests = 0
    /\ res_json = NullTree
    /\ inbox = GarbageInbox
    /\ outWritten = FALSE
    /\ failedAt = "none"
    /\ inboxes = GarbageInboxList
    /\ message = GarbageMessage
    /\ messages = GarbageMessageList
    /\ raw_content = "?"
    /\ raw_size = -1
    /\ url = NoUrl
    /\ log = << >>
    /\ released = NoReleased
    /\ reqs = [p \in Tasks |-> IdleReq]
    /\ app = NoApp

\* two tasks calling request operations through the handle, interleaved
\* in every way
NextConc ==
    \/ \E p \in Tasks, o \in ConcOps : ConcStart(p, o)
    \/ \E p \in Tasks, len \in ReqLens, ok \in BOOLEAN :
          ConcOnData(p, len, FALSE, ok)
    \/ \E p \in Tasks, sc \in {200, 404} : ConcPerformReturn(p, "ESP_OK", sc)
    \/ \E p \in Tasks :
          \E tree \in SpecTrees(reqs[p].op) \cup {NullTree}, ok \in BOOLEAN :
             ConcFinish(p, tree, ok)
    \/ \E p \in Tasks : ConcReturn(p)

SpecConc == InitConc /\ [][NextConc]_vars

\* the same calls, events and results fed to two clients that differ in
\* enable_logging only
NextLog ==
    \/ \E o \in RequestOps \ {"send", "send_reply"} : TwinStart(o)
    \/ \E len \in ReqLens, chunked \in BOOLEAN, ok \in BOOLEAN :
          TwinOnData(len, chunked, ok)
    \/ \E e \in EspErrs, sc \in StatusCodes : TwinPerformReturn(e, sc)
    \/ \E tree \in SpecTrees(reqs[1].op) \cup {NullTree}, ok \in BOOLEAN :
          TwinFinish(tree, ok)
    \/ TwinReturn

SpecLog == InitConc /\ [][NextLog]_vars

\* the responses whose records the free specification releases
FreeTrees(o) ==
    CASE o \in {"inbox_create", "inbox_get"} ->
           SmallTrees \cup
           { [t |-> "object", m |-> [FullMembers EXCEPT !["metadata"] = Str("meta")]] }
      [] o = "inbox_list" ->
           { ListObject("inboxes", ArrayItem(a), token, Absent) :
               a \in ArraysOf(InboxElems), token \in {Absent, Str("c2")} }
      [] o = "messages_get" ->
           { ListObject("messages", ArrayItem(a), token, Absent) :
               a \in ArraysOf(MsgElems), token \in {Absent, Str("c2")} }
      [] o = "message_get" -> MsgElems
      [] OTHER -> {}

\* a decoding operation that got its response, then the caller's free calls
InitFree ==
    /\ pc = "performed"
    /\ op \in DecodingOps
    /\ args = Required(op)
    /\ RestInCall(ResponseLog(client, "ESP_OK", 100))
    /\ buffer = Whole(100)
    /\ size = 100
    /\ capacity = INITIAL_CAPACITY
    /\ respBuf = "live"
    /\ termAt = 100
    /\ oob = FALSE
    /\ stream = 100
    /\ events = 1
    /\ sawChunked = FALSE
    /\ reallocFailed = FALSE
    /\ dropped = FALSE
    /\ err = "ESP_OK"
    /\ status_code \in {200, 404}
    /\ result = StatusResult(status_code)
    /\ ret = "AGENTMAIL_ERR_NONE"
    /\ httpRequests = 1
    /\ res_json = NullTree
    /\ inbox = IF op \in {"inbox_create", "inbox_get"} THEN ZeroInbox ELSE GarbageInbox
    /\ outWritten = TRUE
    /\ failedAt = "none"

NextFree ==
    \/ FinishDecodeError
    \/ \E tree \in ParseOutcomes(size, FreeTrees(op)), ok \in BOOLEAN :
          FinishDecode(tree, ok)
    \/ \E is_null \in BOOLEAN : InboxFree(is_null)
    \/ \E is_null \in BOOLEAN : InboxListFree(is_null)
    \/ \E is_null \in BOOLEAN : MessageFree(is_null)
    \/ \E is_null \in BOOLEAN : MessageListFree(is_null)
    \/ CallerAttaches

SpecFree == InitFree /\ [][NextFree]_vars

\* the library as the application finds it: no handle, no call made
LibOff ==
    /\ pc = "idle"
    /\ op = "none"
    /\ args = {}
    /\ client = NoClient
    /\ buffer = << >>
    /\ size = 0
    /\ capacity = 0
    /\ respBuf = "none"
    /\ termAt = 0
    /\ oob = FALSE
    /\ stream = 0
    /\ events = 0
    /\ sawChunked = FALSE
    /\ reallocFailed = FALSE
    /\ dropped = FALSE
    /\ err = "ESP_OK"
    /\ status_code = 0
    /\ result = "AGENTMAIL_ERR_NONE"
    /\ ret = "AGENTMAIL_ERR_NONE"
    /\ httpRequests = 0
    /\ res_json = NullTree
    /\ inbox = GarbageInbox
    /\ outWritten = FALSE
    /\ failedAt = "none"
    /\ inboxes = GarbageInboxList
    /\ message = GarbageMessage
    /\ messages = GarbageMessageList
    /\ raw_content = "?"
    /\ raw_size = -1
    /\ url = NoUrl
    /\ log = << >>
    /\ released = NoReleased
    /\ reqs = NoReqs
    /\ callerCfg = ConcConfig
    /\ initCfg = NoConfig

\* an application that constructs one AgentMailManager and then calls its
\* methods in any order, with every outcome of the library calls
InitMgr ==
    /\ LibOff
    /\ app = [NoApp EXCEPT !.mode = "manager"]

NextMgr ==
    \/ \E api_key \in {"", "key"}, e \in {"AGENTMAIL_ERR_NONE", "AGENTMAIL_ERR_NO_MEM"} :
          MgrInitialize(api_key, e)
    \/ \E out \in InboxCreateOutcomes : MgrGetOrCreateInbox(out)
    \/ \E e \in MgrErrs \cup {"AGENTMAIL_ERR_NONE"} : MgrSendMessage(e)
    \/ \E out \in MessagesGetOutcomes : MgrCheckMessages(out)

SpecMgr == InitMgr /\ [][NextMgr]_vars

\* a device built in one of the two test modes, with or without a display,
\* stored WiFi credentials and an API key
InitTest ==
    /\ LibOff
    /\ \E mode \in {"console", "ui"}, display \in BOOLEAN, ssid \in BOOLEAN,
          api_key \in {"", "key"} :
          app = Booted([mode |-> mode, display |-> display, ssid |-> ssid,
                        api_key |-> api_key])

NextTest ==
    \/ TestCheckSsid
    \/ \E connected \in BOOLEAN : TestWaitWifi(connected)
    \/ UiCheckDisplay
    \/ \E ok \in BOOLEAN : UiCreateUi(ok)
    \/ TestCheckApiKey
    \/ \E e \in {"AGENTMAIL_ERR_NONE", "AGENTMAIL_ERR_NO_MEM"} : TestInitialize(e)
    \/ \E out \in InboxCreateOutcomes : TestInbox(out)
    \/ \E e \in MgrErrs \cup {"AGENTMAIL_ERR_NONE"} : TestSend(e)
    \/ \E uiOk \in BOOLEAN, checkOk \in BOOLEAN : TestStartTasks(uiOk, checkOk)
    \/ \E out \in MessagesGetOutcomes : CheckTaskPoll(out)
    \/ TestRestart

\* the scheduler runs every task that is ready: the main task's delays end
\* and the check task's interval elapses
SpecTest == InitTest /\ [][NextTest]_vars /\ WF_vars(NextTest)

-----------------------------------------------------------------------------
(* Properties *)

\* the accumulated content is an initial part of the stream
IsPrefix(buf) == Len(buf) = 0 \/ (Len(buf) = 1 /\ buf[1].from = 0)

\* only complete, non-chunked deliveries with every realloc succeeding
PlainDelivery == pc = "perform" /\ ~sawChunked /\ ~reallocFailed

\* C1: after every chunk, of any length, size < capacity holds and no byte
\* (chunk bytes, terminator) was written at or beyond the capacity.
C1_WritesInBounds ==
    pc = "perform" => (size < capacity /\ ~oob)

C3_RetainedIsPrefix ==
    (PlainDelivery /\ ~oob /\ stream > MAX_HTTP_RESPONSE_SIZE) => IsPrefix(buffer)

\* the result the claim gives to a status code
C4_ClaimedResult(sc) ==
    IF sc \in 200 .. 299 THEN "AGENTMAIL_ERR_NONE"
    ELSE IF sc \in {401, 403} THEN "AGENTMAIL_ERR_AUTH"
    ELSE IF sc = 404 THEN "AGENTMAIL_ERR_NOT_FOUND"
    ELSE IF sc = 429 THEN "AGENTMAIL_ERR_RATE_LIMIT"
    ELSE IF sc \in 500 .. 599 THEN "AGENTMAIL_ERR_SERVER"
    ELSE "AGENTMAIL_ERR_OTHER"

\* C4: when the transport completes without error, the helper's result is
\* NONE for 200-299, AUTH for 401 and 403, NOT_FOUND for 404, RATE_LIMIT for
\* 429, SERVER for 500-599 and OTHER for every other status code.
C4_StatusClassification ==
    (pc = "performed" /\ err = "ESP_OK") => result = C4_ClaimedResult(status_code)

\* C5: when the transport reports a failure, the helper's result is TIMEOUT
\* for a timeout and NETWORK for any other failure, whatever the status code.
C5_TransportFailureResult ==
    (pc = "performed" /\ err # "ESP_OK")
        => result = IF err = "ESP_ERR_TIMEOUT" THEN "AGENTMAIL_ERR_TIMEOUT"
                    ELSE "AGENTMAIL_ERR_NETWORK"

\* a timeout reported together with a 2xx status code
C5_Witness ==
    /\ pc = "performed"
    /\ err = "ESP_ERR_TIMEOUT"
    /\ status_code = 200
    /\ result = "AGENTMAIL_ERR_TIMEOUT"

\* C6: a request during which a reallocation of the buffer failed ends with
\* AGENTMAIL_ERR_NO_MEM.
C6_ReallocFailureIsNoMem ==
    (pc = "done" /\ reallocFailed) => ret = "AGENTMAIL_ERR_NO_MEM"

\* the required arguments as the claim lists them
C7_RequiredByClaim(o) ==
    (IF o = "init" THEN {"config", "api_key", "handle_out"} ELSE {"handle"})
    \cup (IF o = "inbox_create" \/ o = "inbox_get" THEN {"inbox"} ELSE {})
    \cup (IF o = "inbox_list" THEN {"inboxes"} ELSE {})
    \cup (IF o = "messages_get" THEN {"messages"} ELSE {})
    \cup (IF o = "message_get" THEN {"message"} ELSE {})
    \cup (PointerArgs(o) \cap {"inbox_id", "message_id"})
    \cup (IF o = "send" \/ o = "send_reply" THEN {"options"} ELSE {})
    \cup (IF o = "send" THEN {"from", "to"} ELSE {})
    \cup (IF o = "message_get_raw" THEN {"raw_content", "raw_size"} ELSE {})

\* C7: an operation called with a NULL required argument returns
\* AGENTMAIL_ERR_INVALID_ARG, has issued no HTTP request, has allocated no
\* response buffer and has written no output.
C7_NullArgumentRejected ==
    (pc = "done" /\ ~(C7_RequiredByClaim(op) \subseteq args))
        => /\ ret = "AGENTMAIL_ERR_INVALID_ARG"
           /\ httpRequests = 0
           /\ respBuf = "none"
           /\ capacity = 0
           /\ ~outWritten
           /\ inbox = GarbageInbox
           /\ (op = "init" => ~client.live)

\* agentmail_send called with options->to NULL and everything else set
C7_Witness ==
    /\ pc = "done"
    /\ op = "send"
    /\ args = {"handle", "options", "from", "message_id_out"}
    /\ ret = "AGENTMAIL_ERR_INVALID_ARG"

\* C8 as amended: a call of a request operation performs at most one HTTP
\* round trip, and exactly one whenever argument validation, local allocation
\* and the initialisation of the transport session succeed.
C8_OneRoundTrip ==
    /\ httpRequests <= 1
    /\ (pc \in {"perform", "performed"} => httpRequests = 1)
    /\ (pc = "done" /\ op \in RequestOps /\ C7_RequiredByClaim(op) \subseteq args
            /\ failedAt = "none")
          => httpRequests = 1

\* C8 as claimed: exactly one whenever argument validation and local
\* allocation succeed.
C8_OneRoundTripUnlessAllocFails ==
    /\ httpRequests <= 1
    /\ (pc = "done" /\ op \in RequestOps /\ C7_RequiredByClaim(op) \subseteq args
            /\ failedAt \notin {"json", "payload", "calloc"})
          => httpRequests = 1

\* a list-messages call whose only request ended with a server error
C8_Witness ==
    /\ pc = "done"
    /\ op = "messages_get"
    /\ "query" \notin args
    /\ ret = "AGENTMAIL_ERR_SERVER"
    /\ httpRequests = 1

\* C9: within one request the capacity never decreases, whatever the event
\* (appended, dropped, ignored as chunked, failed reallocation).
C9_CapacityNeverDecreases ==
    [][pc = "perform" => capacity' >= capacity]_vars

\* the capacity has grown to the ceiling and a later chunk was dropped there
C9_Witness ==
    /\ pc = "perform"
    /\ capacity = MAX_HTTP_RESPONSE_SIZE
    /\ dropped
    /\ size > 0
    /\ events = 3

\* the record field the claim pairs with each response field
C10_FieldOf(k) ==
    CASE k = "inbox_id"   -> "inbox_id"
      [] k = "address"    -> "email_address"
      [] k = "name"       -> "name"
      [] k = "created_at" -> "created_at"

\* the value found under k in the response object, if there is one
C10_Item(k) == IF res_json.t = "object" THEN res_json.m[k] ELSE Absent

-----------------------------------------------------------------------------
(* List decoding *)

\* the list record the running operation writes
ListRecord == IF op = "inbox_list" THEN inboxes ELSE messages

\* a list operation has decoded a parseable 2xx response
ListDecoded ==
    /\ pc = "done"
    /\ op \in ListOps
    /\ result = "AGENTMAIL_ERR_NONE"
    /\ res_json # NullTree

\* the element array as the claim selects it: the named field when it is an
\* array, else the top-level value when that is an array, else nothing
C11_Selected ==
    LET f == ListField(op)
    IN  IF res_json.t = "object" /\ f \in DOMAIN res_json.m
           /\ res_json.m[f].t = "array"
        THEN res_json.m[f].a
        ELSE IF res_json.t = "array" /\ "a" \in DOMAIN res_json
        THEN res_json.a
        ELSE << >>

\* C11: a list operation that decoded a parseable 2xx response returns
\* AGENTMAIL_ERR_NONE and its count is the number of elements of the
\* selected array (named field, else top-level array, else empty).
C11_CountIsArraySize ==
    ListDecoded =>
        /\ ret = "AGENTMAIL_ERR_NONE"
        /\ ListRecord.count = Len(C11_Selected)

\* what the array selection does whenever the element array is allocated:
\* the same rule, with calloc succeeding
C11_CountIsArraySizeWhenAllocated ==
    (ListDecoded /\ (Len(C11_Selected) > 0 => ListRecord.arr = "owned")) =>
        /\ ret = "AGENTMAIL_ERR_NONE"
        /\ ListRecord.count = Len(C11_Selected)
        /\ Len(ListRecord.items) = Len(C11_Selected)

\* C12: every element of a decoded list equals, field for field, the record
\* the single-entity decode (inbox_get, message_get) produces from the same
\* JSON object.
C12_ElementAsSingleDecode ==
    (ListDecoded /\ ListRecord.arr = "owned") =>
        \A i \in 1 .. Len(C11_Selected) :
            C11_Selected[i].t = "object" =>
                ListRecord.items[i] =
                    IF op = "inbox_list" THEN DecodeInbox(C11_Selected[i])
                    ELSE DecodeMessage(C11_Selected[i])

\* the message half of C12 taken alone
C12_MessageElementAsSingleDecode ==
    (ListDecoded /\ op = "messages_get" /\ ListRecord.arr = "owned") =>
        \A i \in 1 .. Len(C11_Selected) :
            ListRecord.items[i] = DecodeMessage(C11_Selected[i])

\* the string member k of element e, "NULL" when absent or not a string
C13_Text(e, k) ==
    IF e.t = "object" /\ e.m[k].t = "string" THEN e.m[k].v ELSE "NULL"

\* the entry the claim describes for element e
C13_Entry(e) ==
    [message_id |-> C13_Text(e, "message_id"),
     thread_id  |-> C13_Text(e, "thread_id"),
     from       |-> C13_Text(e, "from"),
     to         |-> C13_Text(e, "to"),
     subject    |-> C13_Text(e, "subject"),
     body_text  |-> C13_Text(e, "text"),
     body_html  |-> C13_Text(e, "html"),
     timestamp  |-> C13_Text(e, "created_at"),
     is_read    |-> (e.t = "object" /\ e.m["is_read"].t = "true"),
     attachments |-> "NULL",
     attachment_count |-> 0]

\* the response is an object with a "messages" array
C13_ObjectWithMessages ==
    /\ ListDecoded
    /\ op = "messages_get"
    /\ res_json.t = "object"
    /\ "messages" \in DOMAIN res_json.m
    /\ res_json.m["messages"].t = "array"

\* next_cursor and total follow next_page_token and count
C13_Pagination ==
    /\ (messages.next_cursor # "NULL") = (res_json.m["next_page_token"].t = "string")
    /\ (res_json.m["next_page_token"].t = "string" =>
            messages.next_cursor = res_json.m["next_page_token"].v)
    /\ (res_json.m["count"].t = "number" => messages.total = 7)
    /\ (res_json.m["count"].t # "number" => messages.total = 0)

\* C13: for an object with a "messages" array of k elements the list has
\* exactly k entries in array order, each populated only from the members
\* of its element (is_read from the boolean, false when absent); next_cursor
\* is set exactly when next_page_token is a string and total exactly when
\* count is a number.
C13_MessagesDecoded ==
    C13_ObjectWithMessages =>
        LET a == res_json.m["messages"].a
        IN  /\ messages.count = Len(a)
            /\ Len(messages.items) = Len(a)
            /\ \A i \in 1 .. Len(a) : messages.items[i] = C13_Entry(a[i])
            /\ C13_Pagination

\* the same for the responses whose entries array is allocated
C13_MessagesDecodedWhenAllocated ==
    (C13_ObjectWithMessages
     /\ (Len(res_json.m["messages"].a) > 0 => messages.arr = "owned")) =>
        LET a == res_json.m["messages"].a
        IN  /\ messages.count = Len(a)
            /\ Len(messages.items) = Len(a)
            /\ \A i \in 1 .. Len(a) : messages.items[i] = C13_Entry(a[i])
            /\ C13_Pagination

-----------------------------------------------------------------------------
(* Free operations *)

\* no pointer occurs twice in a sequence
C14_NoDuplicates(ps) ==
    \A i, j \in 1 .. Len(ps) : i # j => ps[i] # ps[j]

\* the step is a call of free operation name
C14_Calls(name) ==
    /\ Len(released'.calls) = Len(released.calls) + 1
    /\ released'.calls[Len(released'.calls)].op = name

\* what a call of a free operation on record rec does: with a NULL argument
\* nothing; otherwise it leaves the record all-zero, and hands nothing to
\* free() when the record was all-zero already
C14_FreeStep(name, rec, recAfter, zero) ==
    C14_Calls(name) =>
        IF released'.calls[Len(released'.calls)].null
        THEN recAfter = rec /\ released'.ptrs = released.ptrs
        ELSE /\ recAfter = zero
             /\ rec = zero => released'.ptrs = released.ptrs

\* C14: each free operation leaves its record all-zero, releases nothing
\* when called on an all-zero record or with NULL, and no pointer is handed
\* to free() twice by any sequence of free calls.
C14_FreeIdempotent ==
    /\ [](C14_NoDuplicates(released.ptrs))
    /\ [][ /\ C14_FreeStep("inbox_free", inbox, inbox', ZeroInbox)
           /\ C14_FreeStep("inbox_list_free", inboxes, inboxes', ZeroInboxList)
           /\ C14_FreeStep("message_free", message, message', ZeroMessage)
           /\ C14_FreeStep("message_list_free", messages, messages',
                           ZeroMessageList) ]_vars

\* a list of two populated messages freed twice: the first call released its
\* strings, the array and the cursor, the second nothing
C14_Witness ==
    /\ op = "messages_get"
    /\ Len(released.calls) = 2
    /\ released.calls[1] = [op |-> "message_list_free", null |-> FALSE]
    /\ released.calls[2] = [op |-> "message_list_free", null |-> FALSE]
    /\ res_json.t = "object"
    /\ "messages" \in DOMAIN res_json.m
    /\ res_json.m["messages"].t = "array"
    /\ Len(res_json.m["messages"].a) = 2
    /\ Len(released.ptrs) > 3
    /\ Ptr("messages", 0, "next_cursor") \in { released.ptrs[i] : i \in 1 .. Len(released.ptrs) }
    /\ messages = ZeroMessageList

-----------------------------------------------------------------------------
(* Raw message retrieval *)

C15_ErrorWitness ==
    /\ pc = "done"
    /\ op = "message_get_raw"
    /\ ret = "AGENTMAIL_ERR_NOT_FOUND"
    /\ size > 0
    /\ respBuf = "freed"
    /\ raw_size = -1

-----------------------------------------------------------------------------
(* Parse failures of the decoding operations *)

\* a decoding operation has returned after a 2xx response
C16_Decoded2xx ==
    /\ pc = "done"
    /\ op \in DecodingOps
    /\ httpRequests = 1
    /\ err = "ESP_OK"
    /\ status_code >= 200
    /\ status_code < 300

\* C16: after a 2xx response a decoding operation returns
\* AGENTMAIL_ERR_PARSE when the body does not parse (an empty body never
\* parses) and AGENTMAIL_ERR_NONE when it parses, whatever it contains.
C16_ParseOrNone ==
    C16_Decoded2xx =>
        /\ (res_json = NullTree => ret = "AGENTMAIL_ERR_PARSE")
        /\ (res_json # NullTree => ret = "AGENTMAIL_ERR_NONE")
        /\ (size = 0 => ret = "AGENTMAIL_ERR_PARSE")

\* a 2xx response whose only chunk was ignored as chunked: empty body, PARSE
C16_Witness ==
    /\ C16_Decoded2xx
    /\ op = "messages_get"
    /\ sawChunked
    /\ stream > 0
    /\ size = 0
    /\ ret = "AGENTMAIL_ERR_PARSE"

\* a 2xx response that parses to something that is no inbox at all
C16_ParsedWitness ==
    /\ C16_Decoded2xx
    /\ op = "inbox_get"
    /\ res_json = ArrayTree
    /\ ret = "AGENTMAIL_ERR_NONE"
    /\ inbox = ZeroInbox

-----------------------------------------------------------------------------
(* The URL of a request *)

\* C17: the URL handed to the transport is the base URL followed by the
\* complete path of the operation, for all lengths of the base URL and of
\* the identifiers, cursors and thread ids: nothing is cut off.
C17_UrlComplete ==
    pc = "perform" =>
        /\ url.path.kept = url.path.want
        /\ ~url.path.oobWrite
        /\ url.kept = url.base + url.path.want

\* the URL is complete whenever the path fits its buffer and base URL plus
\* path fit the 512-byte URL buffer
C17_UrlCompleteWhenItFits ==
    (/\ pc = "perform"
     /\ url.path.want < url.path.size
     /\ url.base + url.path.want < URL_SIZE) =>
        /\ url.path.kept = url.path.want
        /\ ~url.path.oobWrite
        /\ url.kept = url.base + url.path.want

\* inbox_delete with an inbox id of 247 characters: the path loses its last
\* character
C17_TruncatedDelete ==
    /\ pc = "perform"
    /\ op = "inbox_delete"
    /\ url.path.want = 256
    /\ url.path.kept = 255
    /\ url.kept = url.base + 255

-----------------------------------------------------------------------------
(* Concurrent requests *)

\* the tasks whose sessions delivered the bytes of a buffer
C18_Sources(buf) == { buf[i].src : i \in 1 .. Len(buf) }

\* the bytes of a buffer are those its own session delivered, in order
C18_OwnBytes(r, p) ==
    /\ C18_Sources(r.buffer) \subseteq {p}
    /\ C18_Sources(r.parsed) \subseteq {p}
    /\ \A i \in 1 .. Len(r.buffer) : r.buffer[i].from + r.buffer[i].len <= r.stream

\* C18: two request operations running concurrently through one handle share
\* no mutable state: each accumulates only the bytes of its own session,
\* decodes its record from its own body only, and the handle's configuration
\* is only read.
C18_RequestsIndependent ==
    /\ \A p \in Tasks :
          /\ C18_OwnBytes(reqs[p], p)
          /\ (reqs[p].pc = "done" /\ reqs[p].op = "message_get_raw"
               /\ reqs[p].ret = "AGENTMAIL_ERR_NONE") =>
                 /\ C18_Sources(reqs[p].out.content) \subseteq {p}
                 /\ reqs[p].out.size = reqs[p].size
          /\ reqs[p].pc # "idle" => reqs[p].user_data = p
    /\ client = NewClient(initCfg)

\* both tasks inside esp_http_client_perform, each with bytes of its own
C18_Witness ==
    /\ reqs[1].pc = "perform"
    /\ reqs[2].pc = "perform"
    /\ reqs[1].size = 5100
    /\ reqs[2].size = 100
    /\ reqs[1].op = "messages_get"
    /\ reqs[2].op = "message_get_raw"

-----------------------------------------------------------------------------
(* Logging *)

\* C19: with the same operation, arguments and transport events, the error
\* code, the status code, the accumulated body and the output record are
\* the same with enable_logging true and false.
C19_LoggingDoesNotChangeResults ==
    [reqs[1] EXCEPT !.log = << >>, !.user_data = 0, !.buffer = << >>,
                    !.parsed = << >>, !.out = "?"]
      = [reqs[2] EXCEPT !.log = << >>, !.user_data = 0, !.buffer = << >>,
                        !.parsed = << >>, !.out = "?"]
    /\ [i \in 1 .. Len(reqs[1].buffer) |->
          [from |-> reqs[1].buffer[i].from, len |-> reqs[1].buffer[i].len]]
       = [i \in 1 .. Len(reqs[2].buffer) |->
          [from |-> reqs[2].buffer[i].from, len |-> reqs[2].buffer[i].len]]
    /\ (reqs[1].op # "message_get_raw" => reqs[1].out = reqs[2].out)

\* a decoded 404 and a decoded list: the logging client logged, the other not
C19_Witness ==
    /\ reqs[1].pc = "done"
    /\ reqs[1].op = "inbox_list"
    /\ reqs[1].ret = "AGENTMAIL_ERR_NONE"
    /\ reqs[1].size = 5100
    /\ reqs[1].out.count = 1
    /\ reqs[2].out.count = 1
    /\ reqs[1].log # reqs[2].log

-----------------------------------------------------------------------------
(* Configuration *)

\* C20: while the handle lives, its credential, base URL, timeout, logging
\* flag and user context are those agentmail_init computed from the config
\* it was given, whatever operations ran since and whatever the caller did
\* to its config afterwards; the handle changes at init and destroy only.
C20_ConfigFixed ==
    /\ client.live => HandleView = NewClient(initCfg)
    /\ ~client.live => client = NoClient

\* a request ran through a handle whose caller has since overwritten the
\* config it was initialised from
C20_Witness ==
    /\ client.live
    /\ pc = "done"
    /\ op = "inbox_get"
    /\ ret = "AGENTMAIL_ERR_NONE"
    /\ initCfg.base_url = "http://host/v0"
    /\ callerCfg.api_key = "other-key"
    /\ client.api_key = "key"
    /\ url.base = 14

-----------------------------------------------------------------------------
(* Accumulator: growth, dropped chunks, chunked responses *)

\* the smaller of two numbers
C23_Min(a, b) == IF a < b THEN a ELSE b

\* C23: the capacity changes only on a data chunk that is appended and has
\* size + len >= capacity, the new capacity then is min(2 x (size + len),
\* 32768); a chunk with size + len < capacity leaves the capacity as it is;
\* the capacity always lies between 4096 and 32768.
C23_GrowthPolicy ==
    /\ [](pc = "perform" =>
            (capacity >= INITIAL_CAPACITY /\ capacity <= MAX_HTTP_RESPONSE_SIZE))
    /\ [][pc = "perform" =>
            LET len == stream' - stream
            IN  /\ capacity' # capacity =>
                      /\ size + len >= capacity
                      /\ size' = size + len
                      /\ capacity' = C23_Min(2 * (size + len), MAX_HTTP_RESPONSE_SIZE)
                /\ size + len < capacity => capacity' = capacity]_vars

\* two growths: 4096 -> 8192 on a chunk of exactly 4096 bytes, then to the
\* ceiling on a chunk that needs more than half of it
C23_Witness ==
    /\ pc = "perform"
    /\ events = 2
    /\ size = 4096 + 16383
    /\ capacity = MAX_HTTP_RESPONSE_SIZE
    /\ ~oob
    /\ ~dropped

\* C24: an event whose chunk the handler drops at the ceiling leaves size,
\* capacity, buffer content and terminator position as they were, and after
\* a drop a non-chunked chunk with size + len < capacity is appended.
C24_DropChangesNothing ==
    [][pc = "perform" =>
         LET len == stream' - stream
         IN  /\ (size + len >= capacity
                   /\ C23_Min(2 * (size + len), MAX_HTTP_RESPONSE_SIZE) <= capacity) =>
                   UNCHANGED <<buffer, size, capacity, termAt, oob>>
             /\ (dropped /\ ~sawChunked' /\ events' = events + 1
                   /\ size + len < capacity) =>
                   /\ size' = size + len
                   /\ buffer' = AppendRun(buffer, stream, len)
                   /\ termAt' = size'
                   /\ capacity' = capacity]_vars

\* a chunk was dropped at the ceiling and a later one-byte chunk was appended
\* behind the bytes kept before the drop
C24_Witness ==
    /\ pc = "perform"
    /\ dropped
    /\ ~sawChunked
    /\ ~oob
    /\ events = 3
    /\ stream = 16384 + 16384 + 1
    /\ size = 16384 + 1
    /\ Len(buffer) = 2
    /\ buffer[2] = [from |-> 32768, len |-> 1]

\* C25: every data event of a chunked-encoded response leaves buffer, size
\* and capacity unchanged, so the response ends with size 0 and the empty,
\* zero-terminated body perform_http_request allocated.
C25_ChunkedIgnored ==
    /\ [](/\ size = 0
          /\ buffer = << >>
          /\ capacity = INITIAL_CAPACITY
          /\ termAt = 0
          /\ ~oob
          /\ (pc = "done" /\ ret = "AGENTMAIL_ERR_NONE" => raw_size = 0))
    /\ [][(pc = "perform" /\ events' = events + 1) =>
            UNCHANGED <<buffer, size, capacity, termAt>>]_vars

\* 72768 bytes of chunked-encoded data were delivered and the operation
\* returned an empty body
C25_Witness ==
    /\ pc = "done"
    /\ ret = "AGENTMAIL_ERR_NONE"
    /\ sawChunked
    /\ events = 2
    /\ stream = 40000 + 32768
    /\ raw_size = 0
    /\ raw_content = "response.buffer"

-----------------------------------------------------------------------------
(* Disposal of the response buffer *)

\* the call got as far as the calloc of the response buffer and it succeeded
C26_Allocated ==
    /\ op \in RequestOps
    /\ ArgsValid(op, args)
    /\ failedAt \notin {"json", "payload", "calloc"}

\* the buffer of a returned call was released once by the library, or handed
\* to the caller once by a successful message_get_raw
C26_Disposed ==
    IF op = "message_get_raw" /\ ret = "AGENTMAIL_ERR_NONE"
    THEN respBuf = "caller"
    ELSE respBuf = "freed"

\* C26: when a public operation has returned, the response buffer its
\* request helper allocated was freed exactly once, or handed to the caller
\* once (message_get_raw success): never freed twice, never left allocated.
C26_DisposedExactlyOnce ==
    (pc = "done" /\ C26_Allocated) => C26_Disposed

\* the same for every call in which esp_http_client_init succeeded
C26_DisposedExactlyOnceUnlessInitFails ==
    (pc = "done" /\ C26_Allocated /\ failedAt # "http_init") => C26_Disposed

\* esp_http_client_init returned NULL: the helper freed the buffer and the
\* operation freed response.buffer again
C26_DoubleFree ==
    /\ pc = "done"
    /\ op = "inbox_create"
    /\ failedAt = "http_init"
    /\ ret = "AGENTMAIL_ERR_HTTP"
    /\ respBuf = "double_freed"

-----------------------------------------------------------------------------
(* The query path of agentmail_messages_get *)

\* C27: while agentmail_messages_get builds its path, no parameter is
\* appended at an offset beyond the 1024-byte buffer, so sizeof(path) - offset
\* never wraps and every write stays inside the buffer, for all lengths of
\* inbox id, cursor and thread id and every combination of options.
C27_PathWritesInBounds ==
    (pc = "perform" /\ op = "messages_get") => ~url.path.oobWrite

\* the writes stay inside the buffer whenever the whole path fits it
C27_PathWritesInBoundsWhenItFits ==
    (pc = "perform" /\ op = "messages_get" /\ url.path.want < url.path.size)
        => ~url.path.oobWrite

\* a cursor of 1000 characters took the offset beyond the buffer and the
\* thread id was appended there
C27_Overrun ==
    /\ pc = "perform"
    /\ op = "messages_get"
    /\ url.path.size = 1024
    /\ url.path.want = 9 + 36 + 16 + 2 + 8 + 1000 + 11 + 8
    /\ url.path.oobWrite

-----------------------------------------------------------------------------
(* Output records on error *)

\* the caller's output record of operation o
C28_Record(o) ==
    CASE o \in {"inbox_create", "inbox_get"} -> inbox
      [] o = "inbox_list"   -> inboxes
      [] o = "messages_get" -> messages
      [] o = "message_get"  -> message

\* what the caller's record held before the call
C28_Before(o) ==
    CASE o \in {"inbox_create", "inbox_get"} -> GarbageInbox
      [] o = "inbox_list"   -> GarbageInboxList
      [] o = "messages_get" -> GarbageMessageList
      [] o = "message_get"  -> GarbageMessage

\* the all-zero record
C28_Zero(o) ==
    CASE o \in {"inbox_create", "inbox_get"} -> ZeroInbox
      [] o = "inbox_list"   -> ZeroInboxList
      [] o = "messages_get" -> ZeroMessageList
      [] o = "message_get"  -> ZeroMessage

\* C28: when inbox_create, inbox_get, inbox_list, messages_get or message_get
\* returns an error, the caller's output record is all-zero whatever it held
\* before, except on AGENTMAIL_ERR_INVALID_ARG, where it is as the caller
\* passed it.
C28_ZeroOnError ==
    (pc = "done" /\ op \in DecodingOps /\ ret # "AGENTMAIL_ERR_NONE") =>
        IF ret = "AGENTMAIL_ERR_INVALID_ARG"
        THEN C28_Record(op) = C28_Before(op)
        ELSE C28_Record(op) = C28_Zero(op)

\* messages_get got a 2xx body that does not parse: the record that held
\* garbage before the call is all-zero
C28_Witness ==
    /\ pc = "done"
    /\ op = "messages_get"
    /\ ret = "AGENTMAIL_ERR_PARSE"
    /\ status_code = 200
    /\ messages = ZeroMessageList
    /\ messages # GarbageMessageList

\* inbox_list fails before the request: the transport could not be set up
C28_HttpWitness ==
    /\ pc = "done"
    /\ op = "inbox_list"
    /\ ret = "AGENTMAIL_ERR_HTTP"
    /\ inboxes = ZeroInboxList

-----------------------------------------------------------------------------
(* agentmail_send and agentmail_send_reply *)

\* the response was parsed and holds a string under "message_id"
C29_StringId ==
    /\ res_json.t = "object"
    /\ res_json.m["message_id"].t = "string"

\* C29: send and send_reply return AGENTMAIL_ERR_NONE for every 2xx
\* response, whatever its body; the caller's *message_id is written only
\* when the call returned AGENTMAIL_ERR_NONE, the pointer was given and a
\* string message_id was decoded, and is left alone in every other case.
C29_SendResult ==
    (pc = "done" /\ op \in {"send", "send_reply"}) =>
        /\ (httpRequests = 1 /\ err = "ESP_OK"
              /\ status_code >= 200 /\ status_code <= 299)
               => ret = "AGENTMAIL_ERR_NONE"
        /\ outWritten <=> (/\ ret = "AGENTMAIL_ERR_NONE"
                           /\ "message_id_out" \in args
                           /\ C29_StringId)

\* a 2xx with an empty body: success, *message_id untouched
C29_Witness ==
    /\ pc = "done"
    /\ op = "send"
    /\ "message_id_out" \in args
    /\ status_code = 299
    /\ size = 0
    /\ ret = "AGENTMAIL_ERR_NONE"
    /\ ~outWritten

\* a 2xx whose message_id is not a string: success, *message_id untouched
C29_NonStringWitness ==
    /\ pc = "done"
    /\ op = "send_reply"
    /\ "message_id_out" \in args
    /\ res_json.t = "object"
    /\ res_json.m["message_id"].t \notin {"string", "absent"}
    /\ ret = "AGENTMAIL_ERR_NONE"
    /\ ~outWritten

\* a 2xx with a string message_id: *message_id written
C29_WrittenWitness ==
    /\ pc = "done"
    /\ op = "send"
    /\ C29_StringId
    /\ outWritten

-----------------------------------------------------------------------------
(* AgentMailManager *)

\* the library calls the step from manager m to manager n added
C30_NewCalls(m, n) == SubSeq(n.calls, Len(m.calls) + 1, Len(n.calls))

\* C30: no send, list-messages or mark-read call is made with an empty
\* stored inbox id; the stored id changes only from empty to the id of a
\* create-inbox call that returned success; once it is non-empty
\* GetOrCreateInbox returns it and no method makes another create call.
C30_InboxIdGate ==
    /\ [](\A i \in 1 .. Len(app.mgr.calls) :
             app.mgr.calls[i].fn \in {"send", "messages_get", "message_mark_read"}
                => app.mgr.calls[i].inbox_id # "")
    /\ [][LET m == app.mgr
              n == app.mgr'
              new == C30_NewCalls(m, n)
          IN  /\ n.inbox_id_ # m.inbox_id_ =>
                    /\ m.inbox_id_ = ""
                    /\ Len(new) = 1
                    /\ new[1].fn = "inbox_create"
                    /\ new[1].err = "AGENTMAIL_ERR_NONE"
                    /\ n.ret = n.inbox_id_
              /\ m.inbox_id_ # "" =>
                    /\ n.inbox_id_ = m.inbox_id_
                    /\ \A i \in 1 .. Len(new) : new[i].fn # "inbox_create"
                    /\ (n.last = "GetOrCreateInbox" /\ n # m) =>
                          (n.ret = m.inbox_id_ /\ Len(new) = 0)]_vars

\* an inbox was created at the second attempt, a message was sent from it
\* and a later GetOrCreateInbox returned the stored id without a call
C30_Witness ==
    /\ app.mode = "manager"
    /\ app.mgr.inbox_id_ = "a@x.to"
    /\ app.mgr.last = "GetOrCreateInbox"
    /\ app.mgr.ret = "a@x.to"
    /\ Len(app.mgr.calls) = 4
    /\ app.mgr.calls[2].fn = "inbox_create"
    /\ app.mgr.calls[2].err = "AGENTMAIL_ERR_NETWORK"
    /\ app.mgr.calls[3].fn = "inbox_create"
    /\ app.mgr.calls[4] = [fn |-> "send", inbox_id |-> "a@x.to",
                            handle |-> "handle", err |-> "AGENTMAIL_ERR_NONE"]

-----------------------------------------------------------------------------
(* The test modes *)

\* the main task's step at position at failed
C22_StepFailed ==
    \/ app.pc = "boot" /\ ~app.ssid
    \/ app.pc = "wifi" /\ ~app'.wifi
    \/ app.pc = "api_key" /\ app.api_key = ""
    \/ app.pc = "initialize" /\ app'.mgr.ret = "false"
    \/ app.pc = "inbox" /\ app'.mgr.ret = ""

\* the manager made an agentmail_init call that succeeded
C22_Initialised ==
    \E i \in 1 .. Len(app.mgr.calls) :
        app.mgr.calls[i].fn = "init" /\ app.mgr.calls[i].err = "AGENTMAIL_ERR_NONE"

C22_RestartWitness ==
    /\ app.mode = "console"
    /\ app.pc = "restart"
    /\ app.wifi
    /\ app.errors = 1
    /\ Len(app.mgr.calls) = 2
    /\ app.mgr.calls[2].fn = "inbox_create"

\* C21: without a display the UI test mode goes on to the AgentMail test
\* (the API key, the client, the inbox, the send, the polling) instead of
\* ending.
C21_FallsBackToConsole ==
    [][app.mode = "ui" /\ app.pc = "display" /\ ~app.display =>
        app'.pc = "api_key"]_vars

\* what the UI test mode does without a display: it restarts, no manager is
\* made and no task is started, again after every restart
C21_NoDisplayRestarts ==
    /\ [][app.mode = "ui" /\ app.pc = "display" /\ ~app.display =>
            app'.pc = "restart"]_vars
    /\ [](app.mode = "ui" /\ ~app.display =>
            app.mgr = NoManager /\ ~app.checkTask /\ ~app.uiTask)

\* a UI-mode device without a display that is connected and about to restart
C21_NoDisplayWitness ==
    /\ app.mode = "ui"
    /\ ~app.display
    /\ app.wifi
    /\ app.pc = "restart"

====
